---- MODULE Spec2Model ----
(***************************************************************************)
(* Game-progress lifecycle of the online nonogram: the Home component      *)
(* (page.tsx), its persistent timer hook, the date-aware session store     *)
(* (storageManager.ts) and the puzzle helpers (nonogram.ts).               *)
(*                                                                         *)
(* React is modelled at the granularity of one commit: an event handler    *)
(* (or a timer callback) queues state updates and produces a new render;   *)
(* RunEffects then runs, in declaration order, every effect of that render *)
(* whose dependencies changed, with the values the render closed over,     *)
(* and applies the updates the effects queued as one batch.  Refs and      *)
(* localStorage are written immediately.                                   *)
(*                                                                         *)
(* The puzzle grids are scaled down (easy 2x2 for 5x5, medium 3x3 for      *)
(* 10x10); ids, pool order, pool sizes and which solutions coincide are    *)
(* those of the catalog.                                                   *)
(***************************************************************************)
EXTENDS Integers, Sequences, FiniteSets, TLC

\* ------------------------------------------------------------------------
\* Bounds of the model
\* ------------------------------------------------------------------------
FirstDay == 20      \* the first modelled calendar day, 2026-01-20
MaxDays == 1        \* number of midnights that may pass
MaxUndo == 2        \* grid edits are accepted while the undo stack is shorter
MaxSeconds == 1     \* timer ticks are accepted while seconds is smaller
MaxSolved == 2      \* grid edits are accepted while totalSolved is smaller
MaxEvents == 5      \* events (user input, ticks, polls, reloads) in one behaviour
MaxCalls == 2       \* direct calls of the store library in one behaviour
MaxAge == 1         \* largest cleanup threshold, in days
MaxPool == 3        \* largest shortened pool handed to the selection functions
MaxPicks == 3       \* consecutive rotation picks in one behaviour
MaxHookEvents == 4  \* events of one useGameLogic behaviour
MaxPageEvents == 3  \* events other than New puzzle presses of one page.tsx behaviour
MaxPresses == 6     \* New puzzle presses of one page.tsx behaviour

Days == FirstDay..(FirstDay + MaxDays)

\* ------------------------------------------------------------------------
\* nonogram.ts: grids, evaluator, catalog
\* ------------------------------------------------------------------------
createEmptyGrid(size) == [r \in 1..size |-> [c \in 1..size |-> 0]]

\* player[row][col] where the row does not exist throws a TypeError
isSolvedThrows(player, solution) ==
    \E row \in 1..Len(solution) :
        /\ row > Len(player)
        /\ \A r \in 1..(row - 1) : \A c \in 1..Len(solution) :
              LET playerCell == IF c <= Len(player[r]) THEN player[r][c] ELSE 3
              IN  (solution[r][c] = 1) <=> (playerCell = 1)

\* an evaluator for which a marked cell stands for a filled one
isSolvedCountingMarks(player, solution) ==
    \A row \in 1..Len(solution) : \A col \in 1..Len(solution) :
        IF solution[row][col] = 1 THEN player[row][col] # 0 ELSE player[row][col] # 1

\* a cell beyond the end of an existing row reads as undefined (here 3)
isSolved(player, solution) ==
    \A row \in 1..Len(solution) : \A col \in 1..Len(solution) :
        /\ row <= Len(player)
        /\ LET playerCell == IF col <= Len(player[row]) THEN player[row][col] ELSE 3
           IN  IF solution[row][col] = 1 THEN playerCell = 1 ELSE playerCell # 1

isValidPlayerGrid(grid, size) ==
    /\ Len(grid) = size
    /\ \A r \in 1..Len(grid) :
          /\ Len(grid[r]) = size
          /\ \A c \in 1..Len(grid[r]) : grid[r][c] \in {0, 1, 2}

SAMPLE_5X5_SOLUTION   == << <<1, 0>>, <<0, 1>> >>
EASY_PLUS_SOLUTION    == << <<0, 1>>, <<1, 1>> >>
EASY_FRAME_SOLUTION   == << <<1, 1>>, <<1, 1>> >>
EASY_DIAMOND_SOLUTION == << <<0, 1>>, <<1, 0>> >>
EASY_BOX_SOLUTION     == << <<1, 1>>, <<1, 1>> >>
EASY_ARROW_SOLUTION   == << <<1, 1>>, <<0, 0>> >>
EASY_HEART_SOLUTION   == << <<1, 0>>, <<1, 0>> >>

MEDIUM_10X10_SOLUTION  == << <<0, 1, 1>>, <<1, 0, 1>>, <<0, 1, 0>> >>
MEDIUM_A_SOLUTION      == << <<0, 1, 1>>, <<1, 1, 1>>, <<1, 0, 1>> >>
MEDIUM_CROSS_SOLUTION  == << <<0, 1, 1>>, <<1, 1, 1>>, <<0, 1, 0>> >>
MEDIUM_HOUSE_SOLUTION  == << <<0, 1, 1>>, <<1, 1, 1>>, <<1, 1, 1>> >>
MEDIUM_SPIRAL_SOLUTION == << <<1, 1, 1>>, <<1, 0, 1>>, <<1, 1, 1>> >>
DAILY_HEART_SOLUTION   == << <<1, 0, 1>>, <<1, 1, 1>>, <<0, 1, 0>> >>
DAILY_ARROW_SOLUTION   == << <<0, 1, 1>>, <<0, 1, 0>>, <<0, 1, 0>> >>
DAILY_DIAMOND_SOLUTION == << <<0, 1, 1>>, <<1, 0, 1>>, <<0, 1, 1>> >>

Difficulties == {"easy", "medium", "hard"}

PUZZLES ==
    [ easy |-> <<
        [size |-> 2, id |-> "easy-001", solution |-> SAMPLE_5X5_SOLUTION],
        [size |-> 2, id |-> "easy-002", solution |-> EASY_PLUS_SOLUTION],
        [size |-> 2, id |-> "easy-003", solution |-> EASY_FRAME_SOLUTION],
        [size |-> 2, id |-> "easy-004", solution |-> EASY_DIAMOND_SOLUTION],
        [size |-> 2, id |-> "easy-005", solution |-> EASY_BOX_SOLUTION],
        [size |-> 2, id |-> "easy-006", solution |-> EASY_ARROW_SOLUTION],
        [size |-> 2, id |-> "easy-007", solution |-> EASY_HEART_SOLUTION] >>,
      medium |-> <<
        [size |-> 3, id |-> "medium-001", solution |-> MEDIUM_10X10_SOLUTION],
        [size |-> 3, id |-> "medium-002", solution |-> MEDIUM_A_SOLUTION],
        [size |-> 3, id |-> "medium-003", solution |-> MEDIUM_CROSS_SOLUTION],
        [size |-> 3, id |-> "medium-004", solution |-> MEDIUM_HOUSE_SOLUTION],
        [size |-> 3, id |-> "medium-005", solution |-> MEDIUM_SPIRAL_SOLUTION],
        [size |-> 3, id |-> "medium-006", solution |-> DAILY_HEART_SOLUTION],
        [size |-> 3, id |-> "medium-007", solution |-> DAILY_ARROW_SOLUTION],
        [size |-> 3, id |-> "medium-008", solution |-> DAILY_DIAMOND_SOLUTION] >>,
      hard |-> << >> ]

\* ------------------------------------------------------------------------
\* nonogram.ts: dates and the featured puzzle
\* ------------------------------------------------------------------------
\* Strings are sequences of character codes.
DifficultyChars(d) ==
    CASE d = "easy"   -> <<101, 97, 115, 121>>
      [] d = "medium" -> <<109, 101, 100, 105, 117, 109>>
      [] d = "hard"   -> <<104, 97, 114, 100>>

\* "YYYY-MM-DD" of a day of January 2026 (day 0 is 2025-12-31)
getLocalDateISO(day) ==
    IF day >= 1
    THEN <<50, 48, 50, 54, 45, 48, 49, 45, 48 + (day \div 10), 48 + (day % 10)>>
    ELSE <<50, 48, 50, 53, 45, 49, 50, 45, 51, 49>>

getPreviousDateISO(day) == getLocalDateISO(day - 1)

\* 32-bit values are kept as <<high 16 bits, low 16 bits>>
BitXor(a, b, bits) ==
    LET X[i \in 0..bits] ==
            IF i = 0 THEN 0
            ELSE X[i - 1] + ((2 ^ (i - 1)) *
                             ((((a \div (2 ^ (i - 1))) % 2) + ((b \div (2 ^ (i - 1))) % 2)) % 2))
    IN  X[bits]

\* hash = ((hash << 5) + hash) ^ charCode, in int32
HashStep(hash, code) ==
    LET lo33 == hash[2] * 33
        hi33 == (hash[1] * 33) + (lo33 \div 65536)
    IN  << hi33 % 65536, BitXor(lo33 % 65536, code, 16) >>

\* the value of hash after the loop over str, starting from 5381 = 0x1505
HashLoop(str) ==
    LET H[i \in 0..Len(str)] ==
            IF i = 0 THEN <<0, 5381>> ELSE HashStep(H[i - 1], str[i])
    IN  H[Len(str)]

\* Math.abs(hash) % n for the int32 held in h
AbsMod(h, n) ==
    IF h[1] >= 32768
    THEN LET nlo == (65536 - h[2]) % 65536
             nhi == ((65535 - h[1]) + (IF h[2] = 0 THEN 1 ELSE 0)) % 65536
         IN  (((nhi % n) * (65536 % n)) + nlo) % n
    ELSE (((h[1] % n) * (65536 % n)) + h[2]) % n

\* hashString(str) % n
hashStringMod(str, n) == AbsMod(HashLoop(str), n)

Seed(d, dateISO) == DifficultyChars(d) \o <<58>> \o dateISO

\* the pool index (0-based) of the featured puzzle; pool must not be empty
FeaturedIndex(d, day) ==
    LET pool == PUZZLES[d]
        indexToday == hashStringMod(Seed(d, getLocalDateISO(day)), Len(pool))
        indexYesterday == hashStringMod(Seed(d, getPreviousDateISO(day)), Len(pool))
    IN  IF Len(pool) = 1 THEN 0
        ELSE IF indexToday = indexYesterday THEN (indexToday + 1) % Len(pool)
        ELSE indexToday

getFeaturedPuzzleThrows(d) == Len(PUZZLES[d]) = 0

getFeaturedPuzzle(d, day) == PUZZLES[d][FeaturedIndex(d, day) + 1]

\* the daily puzzle of (difficulty, date) is the featured puzzle
getDailyPuzzle(d, day) == getFeaturedPuzzle(d, day)

\* Home: const puzzle = useMemo(...) with the easy[0] fallback, tabulated as
\* the set of <<difficulty, day, puzzle>> for the modelled days
PuzzleTable ==
    { <<d, day,
        IF getFeaturedPuzzleThrows(d)
        THEN PUZZLES["easy"][1]
        ELSE getDailyPuzzle(d, day)>> : d \in Difficulties, day \in Days }

puzzle(d, day) ==
    (CHOOSE t \in PuzzleTable : t[1] = d /\ t[2] = day)[3]

\* ------------------------------------------------------------------------
\* State
\* ------------------------------------------------------------------------
VARIABLES
    \* localStorage
    sessions,        \* puzzle_<difficulty>_<date>  -> GameSessionData
    timers,          \* nonogram:timer:<difficulty>:<date> -> {seconds, isRunning}
    solvedMarkers,   \* nonogram:solved:<difficulty>:<puzzleId>:v1 present
    statsStore,      \* nonogram:stats:v1, << >> when absent
    \* the wall clock (what new Date() returns), as a day of January 2026
    wallDay,
    \* React state of Home and of usePersistentTimer
    difficulty, todayISO, playerGrid, undoStack, redoStack,
    victoryOpen, gameStatus, stats, seconds, isRunning,
    \* refs
    hasMovedRef, hasLoadedRef, hasShownVictoryModalRef, prevGameStatusRef,
    initializedRef,
    \* commit bookkeeping
    phase,           \* "effects": a render is committed and its effects are due
    changed,         \* the dependencies that differ from the previous render
    \* observation of the last effect pass and of the last event
    lastEvent, events, evalTrace, hist,
    \* the store library called directly: the last call and what it returned,
    \* and the rotation records (nonogram:rotate:<difficulty>:v1)
    lib

storageVars == <<sessions, timers, solvedMarkers, statsStore>>
stateVars == <<difficulty, todayISO, playerGrid, undoStack, redoStack,
               victoryOpen, gameStatus, stats, seconds, isRunning>>
refVars == <<hasMovedRef, hasLoadedRef, hasShownVictoryModalRef, prevGameStatusRef,
             initializedRef>>
vars == <<sessions, timers, solvedMarkers, statsStore, wallDay,
          difficulty, todayISO, playerGrid, undoStack, redoStack,
          victoryOpen, gameStatus, stats, seconds, isRunning,
          hasMovedRef, hasLoadedRef, hasShownVictoryModalRef, prevGameStatusRef,
          initializedRef, phase, changed, lastEvent, events, evalTrace, hist, lib>>

\* ------------------------------------------------------------------------
\* storageManager.ts
\* ------------------------------------------------------------------------
getTodayISO == wallDay

getStorageKeyByDate(d, dateISO) == <<"easy", dateISO>>

getStorageKey(d, dateISO) == <<d, dateISO>>

isDataFromAnyDay(data) == TRUE

isDataFromToday(data) == data.lastSavedDate = getTodayISO

\* A stored text is modelled by what JSON.parse makes of it: the text of an
\* attempt object (its members in the order JSON.stringify writes them), the
\* text null, or a text that is not JSON.
JSONstringify(sessionData) ==
    <<"object", sessionData.grid, sessionData.undoStack, sessionData.redoStack,
      sessionData.timerSeconds, sessionData.status, sessionData.lastSavedDate>>

JSONparseThrows(text) == text[1] \notin {"object", "null"}

Null == [null |-> TRUE]

JSONparse(text) ==
    IF text[1] = "object"
    THEN [grid |-> text[2], undoStack |-> text[3], redoStack |-> text[4],
          timerSeconds |-> text[5], status |-> text[6], lastSavedDate |-> text[7]]
    ELSE Null

\* << >> for null, <<data>> otherwise; a SyntaxError of JSON.parse and the
\* TypeError of reading lastSavedDate of null are caught
loadGameSession(store, d, dateISO) ==
    LET key == getStorageKey(d, dateISO)
    IN  IF key \notin DOMAIN store THEN << >>
        ELSE IF JSONparseThrows(store[key]) THEN << >>
        ELSE IF JSONparse(store[key]) = Null THEN << >>
        ELSE IF ~isDataFromToday(JSONparse(store[key])) THEN << >>
        ELSE << JSONparse(store[key]) >>

\* a write to localStorage fails when the quota is exceeded or storage is
\* disabled: the store keeps its contents and the call throws
storageWrite(old, new, fails) ==
    IF fails THEN [store |-> old, threw |-> TRUE] ELSE [store |-> new, threw |-> FALSE]

\* localStorage.setItem
setItem(store, key, value, fails) ==
    storageWrite(store,
                 [k \in (DOMAIN store) \cup {key} |-> IF k = key THEN value ELSE store[k]],
                 fails)

\* try { ... } catch { }
Swallow(outcome) == [outcome EXCEPT !.threw = FALSE]

\* a save that keeps the undo stack of the record it finds
saveGameSessionMerging(store, d, dateISO, data, fails) ==
    LET old == loadGameSession(store, d, dateISO)
        sessionData == [grid |-> data.grid,
                        undoStack |-> IF old = << >> THEN data.undoStack ELSE old[1].undoStack,
                        redoStack |-> data.redoStack, timerSeconds |-> data.timerSeconds,
                        status |-> data.status, lastSavedDate |-> getTodayISO]
    IN  Swallow(setItem(store, getStorageKey(d, dateISO), JSONstringify(sessionData), fails))

\* saveGameSession when setItem may fail: the store after the call and
\* whether the call threw
saveGameSessionOutcome(store, d, dateISO, data, fails) ==
    LET key == getStorageKey(d, dateISO)
        sessionData == [grid |-> data.grid, undoStack |-> data.undoStack,
                        redoStack |-> data.redoStack, timerSeconds |-> data.timerSeconds,
                        status |-> data.status, lastSavedDate |-> getTodayISO]
    IN  Swallow(setItem(store, key, JSONstringify(sessionData), fails))

saveGameSessionOnce(store, d, dateISO, data) ==
    IF getStorageKey(d, dateISO) \in DOMAIN store THEN store
    ELSE saveGameSessionOutcome(store, d, dateISO, data, FALSE).store

saveGameSession(store, d, dateISO, data) ==
    saveGameSessionOutcome(store, d, dateISO, data, FALSE).store

\* localStorage after loadGameSession: the function only calls getItem
loadGameSessionPurges(store, d, dateISO) ==
    IF loadGameSession(store, d, dateISO) = << >>
    THEN [k \in (DOMAIN store) \ {getStorageKey(d, dateISO)} |-> store[k]]
    ELSE store

loadGameSessionStore(store, d, dateISO) == store

\* one entry per puzzle_<difficulty>_<date> key whose value JSON.parse accepts
getAllStoredSessions(store) ==
    {[key |-> k, difficulty |-> k[1], dateISO |-> k[2], data |-> JSONparse(store[k])] :
        k \in {j \in DOMAIN store : ~JSONparseThrows(store[j])}}

\* s.data.status where data is null throws a TypeError, and so does
\* stats.byDifficulty[session.difficulty].played++ for an unknown difficulty
getGameStatsThrows(store) ==
    \E s \in getAllStoredSessions(store) :
        s.data = Null \/ s.difficulty \notin {"easy", "medium", "hard"}

getGameStats(store) ==
    LET all == getAllStoredSessions(store)
        solved == {s \in all : s.data.status = "solved"}
    IN  [totalPlayed |-> Cardinality(all),
         totalSolved |-> Cardinality(solved),
         byDifficulty |->
            [d \in {"easy", "medium", "hard"} |->
                [played |-> Cardinality({s \in all : s.difficulty = d}),
                 solved |-> Cardinality({s \in solved : s.difficulty = d})]]]

\* diffDays = ceil(|now - <date>T00:00:00Z| / one day); partDay is 1 unless
\* now falls exactly on a UTC midnight; keys that do not start with puzzle_
\* are skipped, so the other stores are not passed in
cleanupOldGameData(store, olderThanDays, partDay) ==
    LET diffDays(k) == IF wallDay >= k[2] THEN wallDay - k[2] + partDay ELSE k[2] - wallDay
        keep == {k \in DOMAIN store : ~(diffDays(k) > olderThanDays)}
    IN  [k \in keep |-> store[k]]

\* ------------------------------------------------------------------------
\* page.tsx: statistics and solved markers
\* ------------------------------------------------------------------------
createDefaultStats ==
    [totalSolved |-> 0,
     totalSolvedByDifficulty |-> [d \in Difficulties |-> 0],
     solvedToday |-> 0,
     lastSolvedDateISO |-> 0]       \* 0 stands for null

loadStats(store) == IF store = << >> THEN createDefaultStats ELSE store[1]

saveStats(newStats) == << newStats >>

markPuzzleSolved(markers, d, puzzleId) == markers \cup {<<d, puzzleId>>}

\* the updater passed to setStats by the auto-check effect
SolvedStats(prev, d, today) ==
    LET isNewDay == prev.lastSolvedDateISO # today
        baseSolvedToday == IF isNewDay THEN 0 ELSE prev.solvedToday
    IN  [totalSolved |-> prev.totalSolved + 1,
         totalSolvedByDifficulty |->
             [prev.totalSolvedByDifficulty EXCEPT ![d] = @ + 1],
         solvedToday |-> baseSolvedToday + 1,
         lastSolvedDateISO |-> today]

\* ------------------------------------------------------------------------
\* usePersistentTimer
\* ------------------------------------------------------------------------
timerKey(d, today) == <<d, today>>

timerItem(secs, running) == [seconds |-> secs, isRunning |-> running]

setTimerItem(store, key, item) ==
    [k \in (DOMAIN store) \cup {key} |-> IF k = key THEN item ELSE store[k]]

removeTimerItem(store, key) == [k \in (DOMAIN store) \ {key} |-> store[k]]

\* ------------------------------------------------------------------------
\* Home: values derived during render
\* ------------------------------------------------------------------------
size == puzzle(difficulty, todayISO).size
puzzleId == puzzle(difficulty, todayISO).id
solution == puzzle(difficulty, todayISO).solution

\* disabled={!hasEasy} etc. on the difficulty buttons
ButtonEnabled(d) == Len(PUZZLES[d]) > 0

NoTrace == [loadRan |-> FALSE, evalRan |-> FALSE, evalSolved |-> FALSE, saveRan |-> FALSE]

PrimNames == {"difficulty", "todayISO", "victoryOpen", "gameStatus",
              "seconds", "isRunning"}

Cur == [difficulty |-> difficulty, todayISO |-> todayISO, playerGrid |-> playerGrid,
        undoStack |-> undoStack, redoStack |-> redoStack, victoryOpen |-> victoryOpen,
        gameStatus |-> gameStatus, stats |-> stats, seconds |-> seconds,
        isRunning |-> isRunning]

\* Apply a batch of state updates.  n holds the resulting state values and
\* replaced names the array/object-valued states that were given a new
\* object.  React re-renders only if some state is no longer Object.is-equal.
Commit(n, replaced) ==
    LET ch == {name \in PrimNames : n[name] # Cur[name]} \cup replaced
    IN  /\ difficulty' = n.difficulty
        /\ todayISO' = n.todayISO
        /\ playerGrid' = n.playerGrid
        /\ undoStack' = n.undoStack
        /\ redoStack' = n.redoStack
        /\ victoryOpen' = n.victoryOpen
        /\ gameStatus' = n.gameStatus
        /\ stats' = n.stats
        /\ seconds' = n.seconds
        /\ isRunning' = n.isRunning
        /\ changed' = ch
        /\ phase' = IF ch = {} THEN "idle" ELSE "effects"

\* ------------------------------------------------------------------------
\* The effects, in declaration order.  Each maps the mutable context m
\* (localStorage, refs, queued state) to the context after the effect; the
\* values of the render (difficulty, playerGrid, ...) are read from the
\* committed state.
\* ------------------------------------------------------------------------
Mounting == "mount" \in changed
KeyChanged == Mounting \/ "difficulty" \in changed \/ "todayISO" \in changed

Context ==
    [sessions |-> sessions, timers |-> timers, solvedMarkers |-> solvedMarkers,
     statsStore |-> statsStore,
     hasLoadedRef |-> hasLoadedRef, hasShownVictoryModalRef |-> hasShownVictoryModalRef,
     prevGameStatusRef |-> prevGameStatusRef, initializedRef |-> initializedRef,
     playerGrid |-> playerGrid, undoStack |-> undoStack, redoStack |-> redoStack,
     victoryOpen |-> victoryOpen, gameStatus |-> gameStatus, stats |-> stats,
     seconds |-> seconds, isRunning |-> isRunning,
     replaced |-> {}, trace |-> NoTrace, hist |-> hist, threw |-> FALSE]

\* useEffect(() => { cleanupOldGameData(30) }, [])
CleanupEffect(m, partDay) ==
    IF ~Mounting THEN m
    ELSE [m EXCEPT !.sessions = cleanupOldGameData(m.sessions, 30, partDay)]

\* usePersistentTimer: load effect, deps [puzzleKey]
TimerLoadEffect(m) ==
    IF ~KeyChanged THEN m
    ELSE LET key == timerKey(difficulty, todayISO)
         IN  IF key \in DOMAIN m.timers
             THEN [m EXCEPT !.seconds = m.timers[key].seconds, !.initializedRef = TRUE]
             ELSE [m EXCEPT !.seconds = 0, !.isRunning = FALSE, !.initializedRef = TRUE]

\* usePersistentTimer: save on pause/resume, deps [isRunning, puzzleKey]
TimerSaveEffect(m) ==
    IF ~(KeyChanged \/ "isRunning" \in changed) THEN m
    ELSE [m EXCEPT !.timers = setTimerItem(m.timers, timerKey(difficulty, todayISO),
                                           timerItem(seconds, isRunning))]

\* Home: load stats, deps [todayISO]
StatsLoadEffect(m) ==
    IF ~(Mounting \/ "todayISO" \in changed) THEN m
    ELSE LET loaded == loadStats(m.statsStore)
             needsSave == loaded.lastSolvedDateISO # todayISO
             result == IF needsSave
                       THEN [loaded EXCEPT !.solvedToday = 0, !.lastSolvedDateISO = todayISO]
                       ELSE loaded
         IN  [m EXCEPT !.statsStore = IF needsSave THEN saveStats(result) ELSE @,
                       !.stats = result,
                       !.replaced = @ \cup {"stats"}]

\* saved.status === 'solved' ? 'solved' : 'in_progress'
LoadedStatus(saved) == IF saved.status = "solved" THEN "solved" ELSE "in_progress"

\* Home: load effect, deps [storageKey, size, difficulty, todayISO]
LoadEffect(m) ==
    IF ~KeyChanged THEN m
    ELSE LET saved == loadGameSession(m.sessions, difficulty, todayISO)
             loadedStatus == IF saved # << >> THEN LoadedStatus(saved[1]) ELSE "in_progress"
         IN  [m EXCEPT !.playerGrid = IF saved # << >> THEN saved[1].grid
                                      ELSE createEmptyGrid(size),
                       !.undoStack = IF saved # << >> THEN saved[1].undoStack ELSE << >>,
                       !.redoStack = IF saved # << >> THEN saved[1].redoStack ELSE << >>,
                       !.gameStatus = loadedStatus,
                       !.prevGameStatusRef = loadedStatus,
                       !.victoryOpen = FALSE,
                       !.hasLoadedRef = TRUE,
                       !.hasShownVictoryModalRef = FALSE,
                       !.replaced = @ \cup {"playerGrid", "undoStack", "redoStack"},
                       !.trace.loadRan = TRUE,
                       !.hist.loaded = IF saved # << >> THEN saved[1].status ELSE "none",
                       !.hist.solvedLoads = IF saved # << >> /\ saved[1].status = "solved"
                                            THEN @ + 1 ELSE 0]

SaveEffectWithoutStatusDep(m) ==
    IF ~(Mounting \/ changed \cap {"difficulty", "todayISO", "playerGrid", "undoStack",
                                   "redoStack", "seconds"} # {})
    THEN m
    ELSE IF ~m.hasLoadedRef THEN m
    ELSE [m EXCEPT !.sessions = saveGameSession(m.sessions, difficulty, todayISO,
                       [grid |-> playerGrid, undoStack |-> undoStack,
                        redoStack |-> redoStack, timerSeconds |-> seconds,
                        status |-> gameStatus]),
                   !.trace.saveRan = TRUE]

\* Home: save effect,
\* deps [difficulty, todayISO, playerGrid, undoStack, redoStack, gameStatus, timer.seconds]
SaveEffect(m) ==
    IF ~(Mounting \/ changed \cap {"difficulty", "todayISO", "playerGrid", "undoStack",
                                   "redoStack", "gameStatus", "seconds"} # {})
    THEN m
    ELSE IF ~m.hasLoadedRef THEN m
    ELSE [m EXCEPT !.sessions = saveGameSession(m.sessions, difficulty, todayISO,
                       [grid |-> playerGrid, undoStack |-> undoStack,
                        redoStack |-> redoStack, timerSeconds |-> seconds,
                        status |-> gameStatus]),
                   !.trace.saveRan = TRUE]

ShowsModalAnyStatus(m) == ~m.hasShownVictoryModalRef

ShowsModalAlways(m) == TRUE

\* the branch of the auto-check effect that opens the victory modal
ShowsModal(m) == m.prevGameStatusRef = "in_progress" /\ ~m.hasShownVictoryModalRef

\* Home: auto-check effect.  Its deps contain timer, a fresh object in every
\* render, so it runs after every render.
AutoCheckEffect(m) ==
    IF ~m.hasLoadedRef THEN m
    ELSE IF isSolvedThrows(playerGrid, solution) THEN [m EXCEPT !.threw = TRUE]
    ELSE IF isSolved(playerGrid, solution)
    THEN LET show == ShowsModal(m)
             newStats == SolvedStats(m.stats, difficulty, todayISO)
         IN  [m EXCEPT !.isRunning = FALSE,
                       !.hasShownVictoryModalRef = IF show THEN TRUE ELSE @,
                       !.victoryOpen = IF show THEN TRUE ELSE @,
                       !.solvedMarkers = IF show
                                         THEN markPuzzleSolved(@, difficulty, puzzleId)
                                         ELSE @,
                       !.stats = IF show THEN newStats ELSE @,
                       !.statsStore = IF show THEN saveStats(newStats) ELSE @,
                       !.replaced = IF show THEN @ \cup {"stats"} ELSE @,
                       !.hist.shown = IF show THEN @ + 1 ELSE @,
                       !.hist.counted = IF show THEN @ + 1 ELSE @,
                       !.prevGameStatusRef = "solved",
                       !.gameStatus = "solved",
                       !.trace.evalRan = TRUE,
                       !.trace.evalSolved = TRUE]
    ELSE [m EXCEPT !.gameStatus = "in_progress", !.trace.evalRan = TRUE]

\* The context after all effects of one pass (a singleton set: each stage is
\* evaluated once and handed to the next effect).
EffectPass(partDay) ==
    {AutoCheckEffect(m6) : m6 \in
      {SaveEffect(m5) : m5 \in
        {LoadEffect(m4) : m4 \in
          {StatsLoadEffect(m3) : m3 \in
            {TimerSaveEffect(m2) : m2 \in
              {TimerLoadEffect(m1) : m1 \in
                {CleanupEffect(Context, partDay)}}}}}}}

\* Run the effects of the committed render and apply what they queued.
RunEffects ==
    /\ phase = "effects"
    /\ \E partDay \in {0, 1} : \E m \in EffectPass(partDay) :
            /\ sessions' = m.sessions
            /\ timers' = m.timers
            /\ solvedMarkers' = m.solvedMarkers
            /\ statsStore' = m.statsStore
            /\ hasLoadedRef' = m.hasLoadedRef
            /\ hasShownVictoryModalRef' = m.hasShownVictoryModalRef
            /\ prevGameStatusRef' = m.prevGameStatusRef
            /\ initializedRef' = m.initializedRef
            /\ evalTrace' = m.trace
            /\ hist' = m.hist
            /\ IF m.threw
               THEN /\ phase' = "crashed"
                    /\ changed' = {}
                    /\ UNCHANGED stateVars
               ELSE \E n \in {[Cur EXCEPT !.playerGrid = m.playerGrid,
                                          !.undoStack = m.undoStack,
                                          !.redoStack = m.redoStack,
                                          !.victoryOpen = m.victoryOpen,
                                          !.gameStatus = m.gameStatus,
                                          !.stats = m.stats,
                                          !.seconds = m.seconds,
                                          !.isRunning = m.isRunning]} :
                        Commit(n, m.replaced)
    /\ UNCHANGED <<wallDay, lib, hasMovedRef, lastEvent, events>>

\* ------------------------------------------------------------------------
\* Events.  An event is handled when no effects are pending.
\* ------------------------------------------------------------------------
\* every cell that is not filled, marked with an X
MarkEmpty(grid) ==
    [r \in 1..Len(grid) |-> [c \in 1..Len(grid[r]) |-> IF grid[r][c] = 1 THEN 1 ELSE 2]]

\* the grids the board may hand to onChange: the empty grid, the solution of
\* the puzzle of each modelled day, and the solution with its blanks marked
PaintInputs ==
    {createEmptyGrid(size), MarkEmpty(solution)}
        \cup {puzzle(difficulty, day).solution : day \in Days}

\* the attempt object stored under a key: << >> when there is none
RawRecord(store, key) ==
    IF key \in DOMAIN store /\ store[key][1] = "object"
    THEN << JSONparse(store[key]) >> ELSE << >>

\* History of the session: what the last load trigger was, what the load
\* found, and what happened since.  Read by the properties only.
NewSession(trigger, oldKey) ==
    [hist EXCEPT !.trigger = trigger, !.edited = FALSE, !.loaded = "pending",
                 !.restarted = FALSE, !.shownBeforeRestart = FALSE,
                 !.shown = 0, !.counted = 0, !.transitions = 0,
                 !.dismissed = FALSE, !.solvedAtDismiss = FALSE,
                 !.oldKey = oldKey,
                 !.oldRecord = IF oldKey = << >> THEN << >> ELSE RawRecord(sessions, oldKey)]

GridEdited(nextGrid) ==
    [hist EXCEPT !.edited = TRUE, !.solvedLoads = 0, !.beforeUndo = << >>,
                 !.solving = ~isSolved(playerGrid, solution) /\ isSolved(nextGrid, solution),
                 !.transitions = IF ~isSolved(playerGrid, solution) /\ isSolved(nextGrid, solution)
                                 THEN @ + 1 ELSE @]

Event(name, n, replaced) ==
    /\ phase = "idle"
    /\ events < MaxEvents
    /\ Commit(n, replaced)
    /\ lastEvent' = name
    /\ events' = events + 1
    /\ evalTrace' = NoTrace

\* NonogramBoard onChange
handleGridChange ==
    /\ Len(undoStack) < MaxUndo
    /\ stats.totalSolved < MaxSolved
    /\ \E nextGrid \in PaintInputs :
        /\ nextGrid # playerGrid
        /\ Event("edit",
                 [Cur EXCEPT !.playerGrid = nextGrid,
                             !.undoStack = Append(undoStack, playerGrid),
                             !.redoStack = << >>,
                             !.isRunning = IF hasMovedRef THEN @ ELSE TRUE],
                 {"playerGrid", "undoStack", "redoStack"})
        /\ hist' = GridEdited(nextGrid)
    /\ hasMovedRef' = TRUE
    /\ UNCHANGED <<storageVars, wallDay, lib, hasLoadedRef, hasShownVictoryModalRef,
                   prevGameStatusRef, initializedRef>>

handleUndo ==
    /\ Len(undoStack) # 0
    /\ stats.totalSolved < MaxSolved
    /\ Event("undo",
             [Cur EXCEPT !.playerGrid = undoStack[Len(undoStack)],
                         !.undoStack = SubSeq(undoStack, 1, Len(undoStack) - 1),
                         !.redoStack = Append(redoStack, playerGrid)],
             {"playerGrid", "undoStack", "redoStack"})
    /\ hist' = [GridEdited(undoStack[Len(undoStack)]) EXCEPT
                    !.beforeUndo = << playerGrid, undoStack, redoStack >>]
    /\ UNCHANGED <<storageVars, wallDay, lib, refVars>>

\* a redo that does not put the grid it replaces on the undo stack
handleRedoForgetting ==
    /\ Len(redoStack) # 0
    /\ stats.totalSolved < MaxSolved
    /\ Event("redo",
             [Cur EXCEPT !.playerGrid = redoStack[Len(redoStack)],
                         !.redoStack = SubSeq(redoStack, 1, Len(redoStack) - 1)],
             {"playerGrid", "undoStack", "redoStack"})
    /\ hist' = [GridEdited(redoStack[Len(redoStack)]) EXCEPT
                    !.beforeUndo = IF lastEvent = "undo" THEN hist.beforeUndo ELSE << >>]
    /\ UNCHANGED <<storageVars, wallDay, lib, refVars>>

handleRedo ==
    /\ Len(redoStack) # 0
    /\ stats.totalSolved < MaxSolved
    /\ Event("redo",
             [Cur EXCEPT !.playerGrid = redoStack[Len(redoStack)],
                         !.redoStack = SubSeq(redoStack, 1, Len(redoStack) - 1),
                         !.undoStack = Append(undoStack, playerGrid)],
             {"playerGrid", "undoStack", "redoStack"})
    /\ hist' = [GridEdited(redoStack[Len(redoStack)]) EXCEPT
                    !.beforeUndo = IF lastEvent = "undo" THEN hist.beforeUndo ELSE << >>]
    /\ UNCHANGED <<storageVars, wallDay, lib, refVars>>

ResetRefsKeepShown ==
    /\ prevGameStatusRef' = "in_progress"
    /\ hasMovedRef' = FALSE
    /\ UNCHANGED hasShownVictoryModalRef

\* handleReset: the refs it assigns
ResetRefs ==
    /\ prevGameStatusRef' = "in_progress"
    /\ hasMovedRef' = FALSE
    /\ hasShownVictoryModalRef' = FALSE

\* Restart button; timer.resetTimer() included
handleReset ==
    /\ Event("reset",
             [Cur EXCEPT !.playerGrid = createEmptyGrid(size),
                         !.undoStack = << >>,
                         !.redoStack = << >>,
                         !.gameStatus = "in_progress",
                         !.victoryOpen = FALSE,
                         !.seconds = 0,
                         !.isRunning = FALSE],
             {"playerGrid", "undoStack", "redoStack"})
    /\ ResetRefs
    /\ timers' = removeTimerItem(timers, timerKey(difficulty, todayISO))
    /\ initializedRef' = FALSE
    /\ hist' = [hist EXCEPT !.edited = TRUE, !.restarted = TRUE,
                             !.shownBeforeRestart = (hist.shown > 0),
                             !.shown = 0, !.counted = 0, !.transitions = 0,
                             !.dismissed = FALSE, !.solvedLoads = 0]
    /\ UNCHANGED <<sessions, solvedMarkers, statsStore, wallDay, lib, hasLoadedRef>>

handleDifficultyChange ==
    /\ \E newDifficulty \in Difficulties :
        /\ ButtonEnabled(newDifficulty)
        /\ newDifficulty # difficulty
        /\ Event("difficulty",
                 [Cur EXCEPT !.isRunning = FALSE,
                             !.victoryOpen = FALSE,
                             !.difficulty = newDifficulty],
                 {})
    /\ hasMovedRef' = FALSE
    /\ hasShownVictoryModalRef' = FALSE
    /\ hist' = NewSession("difficulty", getStorageKey(difficulty, todayISO))
    /\ UNCHANGED <<storageVars, wallDay, lib, hasLoadedRef, prevGameStatusRef,
                   initializedRef>>

\* VictoryModal onClose (click on the overlay)
onClose ==
    /\ victoryOpen
    /\ Event("close", [Cur EXCEPT !.victoryOpen = FALSE], {})
    /\ sessions' = saveGameSession(sessions, difficulty, todayISO,
                       [grid |-> playerGrid, undoStack |-> undoStack,
                        redoStack |-> redoStack, timerSeconds |-> seconds,
                        status |-> "solved"])
    /\ hist' = [hist EXCEPT !.dismissed = TRUE, !.solvedAtDismiss = (gameStatus = "solved")]
    /\ UNCHANGED <<timers, solvedMarkers, statsStore, wallDay, lib, refVars>>

\* VictoryModal onNextPuzzle (the Continue button)
onNextPuzzle ==
    /\ victoryOpen
    /\ Event("continue", [Cur EXCEPT !.victoryOpen = FALSE], {})
    /\ hist' = [hist EXCEPT !.dismissed = TRUE, !.solvedAtDismiss = (gameStatus = "solved")]
    /\ UNCHANGED <<storageVars, wallDay, lib, refVars>>

\* the settings button: setSettingsModalOpen, a state no effect depends on
\* and nothing modelled reads; Home renders again
ToggleSettings ==
    /\ Event("settings", Cur, {"settingsModalOpen"})
    /\ UNCHANGED <<storageVars, wallDay, lib, refVars, hist>>

\* usePersistentTimer: the one-second interval, alive while isRunning
Tick ==
    /\ isRunning
    /\ seconds < MaxSeconds
    /\ Event("tick", [Cur EXCEPT !.seconds = seconds + 1], {})
    /\ timers' = setTimerItem(timers, timerKey(difficulty, todayISO),
                              timerItem(seconds + 1, TRUE))
    /\ UNCHANGED <<sessions, solvedMarkers, statsStore, wallDay, lib, refVars, hist>>

\* the calendar day changes
Midnight ==
    /\ phase = "idle"
    /\ wallDay < FirstDay + MaxDays
    /\ events < MaxEvents
    /\ wallDay' = wallDay + 1
    /\ lastEvent' = "midnight"
    /\ events' = events + 1
    /\ UNCHANGED <<storageVars, stateVars, refVars, phase, changed, evalTrace, hist, lib>>

\* Home: the 60 s interval, setTodayISO(prev => prev === next ? prev : next)
DatePoll ==
    /\ todayISO # wallDay
    /\ Event("poll", [Cur EXCEPT !.todayISO = wallDay], {})
    /\ hist' = NewSession("poll", getStorageKey(difficulty, todayISO))
    /\ UNCHANGED <<storageVars, wallDay, lib, refVars>>

\* the page is loaded again: every useState and useRef starts from its
\* initial value, localStorage is kept
Reload ==
    /\ phase \in {"idle", "crashed"}
    /\ events < MaxEvents
    /\ events' = events + 1
    /\ difficulty' = "easy"
    /\ todayISO' = wallDay
    /\ playerGrid' = createEmptyGrid(puzzle("easy", wallDay).size)
    /\ undoStack' = << >>
    /\ redoStack' = << >>
    /\ victoryOpen' = FALSE
    /\ gameStatus' = "in_progress"
    /\ stats' = createDefaultStats
    /\ seconds' = 0
    /\ isRunning' = FALSE
    /\ hasMovedRef' = FALSE
    /\ hasLoadedRef' = FALSE
    /\ hasShownVictoryModalRef' = FALSE
    /\ prevGameStatusRef' = "in_progress"
    /\ initializedRef' = FALSE
    /\ phase' = "effects"
    /\ changed' = {"mount"}
    /\ lastEvent' = "mount"
    /\ evalTrace' = NoTrace
    /\ hist' = NewSession("mount", << >>)
    /\ UNCHANGED <<storageVars, wallDay, lib>>

NoCall ==
    [op |-> "none", key |-> << >>, arg |-> << >>, fails |-> FALSE, day |-> 0,
     before |-> << >>, others |-> << >>, result |-> << >>, listed |-> {},
     threw |-> FALSE, calls |-> 0, rotation |-> << >>, seen |-> << >>,
     input |-> [fn |-> "none"], featured |-> <<"none">>, picked |-> << >>,
     hook |-> << >>, page |-> << >>]

HomeInit ==
    /\ timers = << >>
    /\ solvedMarkers = {}
    /\ statsStore = << >>
    /\ wallDay = FirstDay
    /\ difficulty = "easy"
    /\ todayISO = FirstDay
    /\ playerGrid = createEmptyGrid(puzzle("easy", FirstDay).size)
    /\ undoStack = << >>
    /\ redoStack = << >>
    /\ victoryOpen = FALSE
    /\ gameStatus = "in_progress"
    /\ stats = createDefaultStats
    /\ seconds = 0
    /\ isRunning = FALSE
    /\ hasMovedRef = FALSE
    /\ hasLoadedRef = FALSE
    /\ hasShownVictoryModalRef = FALSE
    /\ prevGameStatusRef = "in_progress"
    /\ initializedRef = FALSE
    /\ phase = "effects"
    /\ changed = {"mount"}
    /\ lastEvent = "mount"
    /\ events = 0
    /\ evalTrace = NoTrace
    /\ hist = [trigger |-> "mount", edited |-> FALSE, loaded |-> "pending",
               solvedLoads |-> 0, solving |-> FALSE, restarted |-> FALSE, shownBeforeRestart |-> FALSE,
               shown |-> 0, counted |-> 0, transitions |-> 0, dismissed |-> FALSE,
               solvedAtDismiss |-> FALSE, oldKey |-> << >>, oldRecord |-> << >>,
               beforeUndo |-> << >>]

Init ==
    /\ sessions = << >>
    /\ HomeInit
    /\ lib = NoCall

Next ==
    \/ RunEffects
    \/ handleGridChange
    \/ handleUndo
    \/ handleRedo
    \/ handleReset
    \/ handleDifficultyChange
    \/ onClose
    \/ onNextPuzzle
    \/ ToggleSettings
    \/ Tick
    \/ Midnight
    \/ DatePoll
    \/ Reload

Spec == Init /\ [][Next]_vars

\* ------------------------------------------------------------------------
\* The store library called directly (storageManager.ts, the storage helpers
\* of page.tsx, the rotation module), Home left as it is
\* ------------------------------------------------------------------------
homeVars == <<stateVars, refVars, phase, changed, lastEvent, events, evalTrace, hist>>

LibDifficulties == {"easy", "medium"}

\* what Home passes to saveGameSession: a fresh attempt and a solved one
SaveInputs(d, day) ==
    LET p == puzzle(d, day)
    IN  {[grid |-> createEmptyGrid(p.size), undoStack |-> << >>, redoStack |-> << >>,
          timerSeconds |-> 0, status |-> "in_progress"],
         [grid |-> p.solution, undoStack |-> << createEmptyGrid(p.size) >>,
          redoStack |-> << >>, timerSeconds |-> MaxSeconds, status |-> "solved"]}

\* values of an attempt key that saveGameSession did not write: a truncated
\* text, the text null, a record whose grid has one row too many, a record
\* with a cell outside 0..2
ForeignTexts(d, day) ==
    LET p == puzzle(d, day)
        record(grid) == JSONstringify([grid |-> grid, undoStack |-> << >>,
                                       redoStack |-> << >>, timerSeconds |-> 0,
                                       status |-> "in_progress", lastSavedDate |-> day])
    IN  {<<"garbage">>, <<"null">>,
         record(createEmptyGrid(p.size + 1)),
         record([createEmptyGrid(p.size) EXCEPT ![1][1] = 7])}

Call(base, op, key, arg, fails, result, listed, threw) ==
    lib' = [base EXCEPT !.op = op, !.key = key, !.arg = arg, !.fails = fails,
                        !.day = wallDay,
                        !.before = sessions,
                        !.others = <<timers, solvedMarkers, statsStore>>,
                        !.result = result, !.listed = listed, !.threw = threw,
                        !.calls = lib.calls + 1]

saveGameSessionCall ==
    /\ lib.calls < MaxCalls
    /\ \E d \in LibDifficulties, day \in Days, fails \in BOOLEAN :
         \E data \in SaveInputs(d, day) :
            LET out == saveGameSessionOutcome(sessions, d, day, data, fails)
            IN  /\ sessions' = out.store
                /\ Call(lib, "save", <<d, day>>, data, fails, << >>, {}, out.threw)
    /\ UNCHANGED <<timers, solvedMarkers, statsStore, wallDay, homeVars>>

loadGameSessionCall ==
    /\ lib.calls < MaxCalls
    /\ \E d \in LibDifficulties, day \in Days :
            /\ sessions' = loadGameSessionStore(sessions, d, day)
            /\ Call(lib, "load", <<d, day>>, << >>, FALSE,
                    loadGameSession(sessions, d, day), {}, FALSE)
    /\ UNCHANGED <<timers, solvedMarkers, statsStore, wallDay, homeVars>>

\* another tab, an older build or the user writes an attempt key
foreignWrite ==
    /\ lib.calls < MaxCalls
    /\ \E d \in LibDifficulties, day \in Days :
         \E text \in ForeignTexts(d, day) :
            /\ sessions' = setItem(sessions, <<d, day>>, text, FALSE).store
            /\ Call(lib, "foreign", <<d, day>>, text, FALSE, << >>, {}, FALSE)
    /\ UNCHANGED <<timers, solvedMarkers, statsStore, wallDay, homeVars>>

cleanupOldGameDataCall ==
    /\ lib.calls < MaxCalls
    /\ \E olderThanDays \in 0..MaxAge, partDay \in 0..1 :
            /\ sessions' = cleanupOldGameData(sessions, olderThanDays, partDay)
            /\ Call(lib, "cleanup", << >>, olderThanDays, FALSE, << >>, {}, FALSE)
    /\ UNCHANGED <<timers, solvedMarkers, statsStore, wallDay, homeVars>>

getGameStatsCall ==
    /\ lib.calls < MaxCalls
    /\ Call(lib, "stats", << >>, << >>, FALSE,
            IF getGameStatsThrows(sessions) THEN << >> ELSE << getGameStats(sessions) >>,
            getAllStoredSessions(sessions), getGameStatsThrows(sessions))
    /\ UNCHANGED <<storageVars, wallDay, homeVars>>

\* saveStats, markPuzzleSolved, the timer writes and saveSeenIds wrap their
\* setItem in try/catch
saveStatsOutcome(store, newStats, fails) ==
    Swallow(storageWrite(store, saveStats(newStats), fails))

markPuzzleSolvedOutcome(markers, d, id, fails) ==
    Swallow(storageWrite(markers, markPuzzleSolved(markers, d, id), fails))

setTimerItemOutcome(store, key, item, fails) ==
    Swallow(storageWrite(store, setTimerItem(store, key, item), fails))

RECURSIVE Unique(_)
\* Array.from(new Set(ids)): the first occurrence of every id, in order
Unique(ids) ==
    IF ids = << >> THEN << >>
    ELSE LET front == Unique(SubSeq(ids, 1, Len(ids) - 1))
             last == ids[Len(ids)]
         IN  IF \E i \in 1..Len(front) : front[i] = last THEN front
             ELSE Append(front, last)

saveSeenIdsOutcome(store, key, ids, fails) ==
    Swallow(setItem(store, key, Unique(ids), fails))

\* rotation module: the stored text of a RotationState, "" for no lastId
rotationText(state) == <<"object", state.usedIds, state.lastId>>

loadState(store, key) ==
    IF key \notin DOMAIN store \/ store[key][1] # "object"
    THEN [usedIds |-> << >>, lastId |-> ""]
    ELSE [usedIds |-> store[key][2], lastId |-> store[key][3]]

\* localStorage.setItem without a try/catch around it
saveState(store, key, state, fails) == setItem(store, key, rotationText(state), fails)

getRotationKey(d) == d

\* a pick that takes the pool for used up once usedIds is as long as the pool
pickNextFromPoolCountingStale(pool, store, rotationKey, fails) ==
    LET state == loadState(store, rotationKey)
        used == {state.usedIds[i] : i \in 1..Len(state.usedIds)}
        remaining == IF Len(state.usedIds) >= Len(pool) THEN << >>
                     ELSE SelectSeq(pool, LAMBDA p : p.id \notin used)
        picked == IF Len(remaining) > 0 THEN remaining[1] ELSE pool[1]
        nextState == IF Len(remaining) > 0
                     THEN [usedIds |-> Append(state.usedIds, picked.id), lastId |-> picked.id]
                     ELSE [usedIds |-> << picked.id >>, lastId |-> picked.id]
        out == saveState(store, rotationKey, nextState, fails)
    IN  [picked |-> IF out.threw THEN << >> ELSE << picked >>,
         store |-> out.store, threw |-> out.threw]

\* a pick that stores an empty usedIds when the pool is used up
pickNextFromPoolForgetting(pool, store, rotationKey, fails) ==
    LET state == loadState(store, rotationKey)
        used == {state.usedIds[i] : i \in 1..Len(state.usedIds)}
        remaining == SelectSeq(pool, LAMBDA p : p.id \notin used)
        picked == IF Len(remaining) > 0 THEN remaining[1] ELSE pool[1]
        nextState == IF Len(remaining) > 0
                     THEN [usedIds |-> Append(state.usedIds, picked.id), lastId |-> picked.id]
                     ELSE [usedIds |-> << >>, lastId |-> picked.id]
        out == saveState(store, rotationKey, nextState, fails)
    IN  [picked |-> IF out.threw THEN << >> ELSE << picked >>,
         store |-> out.store, threw |-> out.threw]

\* if (pool.length === 0) throw new Error("Pool is empty")
pickNextFromPoolThrows(pool) == Len(pool) = 0

\* picked is << >> when the call throws
pickNextFromPool(pool, store, rotationKey, fails) ==
    IF pickNextFromPoolThrows(pool)
    THEN [picked |-> << >>, store |-> store, threw |-> TRUE]
    ELSE
    LET state == loadState(store, rotationKey)
        used == {state.usedIds[i] : i \in 1..Len(state.usedIds)}
        remaining == SelectSeq(pool, LAMBDA p : p.id \notin used)
        picked == IF Len(remaining) > 0 THEN remaining[1] ELSE pool[1]
        nextState == IF Len(remaining) > 0
                     THEN [usedIds |-> Append(state.usedIds, picked.id), lastId |-> picked.id]
                     ELSE [usedIds |-> << picked.id >>, lastId |-> picked.id]
        out == saveState(store, rotationKey, nextState, fails)
    IN  [picked |-> IF out.threw THEN << >> ELSE << picked >>,
         store |-> out.store, threw |-> out.threw]

saveStatsCall ==
    /\ lib.calls < MaxCalls
    /\ \E fails \in BOOLEAN :
         LET newStats == SolvedStats(loadStats(statsStore), "easy", wallDay)
             out == saveStatsOutcome(statsStore, newStats, fails)
         IN  /\ newStats.totalSolved <= MaxSolved
             /\ statsStore' = out.store
             /\ Call(lib, "saveStats", << >>, newStats, fails, << >>, {}, out.threw)
    /\ UNCHANGED <<sessions, timers, solvedMarkers, wallDay, homeVars>>

markPuzzleSolvedCall ==
    /\ lib.calls < MaxCalls
    /\ \E fails \in BOOLEAN :
         LET id == puzzle("easy", wallDay).id
             out == markPuzzleSolvedOutcome(solvedMarkers, "easy", id, fails)
         IN  /\ solvedMarkers' = out.store
             /\ Call(lib, "markSolved", <<"easy", id>>, << >>, fails, << >>, {}, out.threw)
    /\ UNCHANGED <<sessions, timers, statsStore, wallDay, homeVars>>

timerSaveCall ==
    /\ lib.calls < MaxCalls
    /\ \E fails \in BOOLEAN :
         LET key == timerKey("easy", wallDay)
             out == setTimerItemOutcome(timers, key, timerItem(MaxSeconds, TRUE), fails)
         IN  /\ timers' = out.store
             /\ Call(lib, "timer", key, << >>, fails, << >>, {}, out.threw)
    /\ UNCHANGED <<sessions, solvedMarkers, statsStore, wallDay, homeVars>>

saveSeenIdsCall ==
    /\ lib.calls < MaxCalls
    /\ \E fails \in BOOLEAN :
         LET id == puzzle("easy", wallDay).id
             out == saveSeenIdsOutcome(lib.seen, <<"easy", wallDay>>, <<id, id>>, fails)
         IN  Call([lib EXCEPT !.seen = out.store], "seen", <<"easy", wallDay>>,
                  <<id, id>>, fails, << >>, {}, out.threw)
    /\ UNCHANGED <<storageVars, wallDay, homeVars>>

pickNextFromPoolCall ==
    /\ lib.calls < MaxCalls
    /\ \E d \in Difficulties, fails \in BOOLEAN :
         LET out == pickNextFromPool(PUZZLES[d], lib.rotation, getRotationKey(d), fails)
         IN  Call([lib EXCEPT !.rotation = out.store], "pick", << d >>, lib.rotation, fails,
                  out.picked, {}, out.threw)
    /\ UNCHANGED <<storageVars, wallDay, homeVars>>

\* the clock passes a local midnight
ClockAdvance ==
    /\ wallDay < FirstDay + MaxDays
    /\ wallDay' = wallDay + 1
    /\ UNCHANGED <<storageVars, homeVars, lib>>

StorageNext ==
    \/ saveGameSessionCall
    \/ loadGameSessionCall
    \/ foreignWrite
    \/ cleanupOldGameDataCall
    \/ getGameStatsCall
    \/ saveStatsCall
    \/ markPuzzleSolvedCall
    \/ timerSaveCall
    \/ saveSeenIdsCall
    \/ pickNextFromPoolCall
    \/ ClockAdvance

StorageSpec == Init /\ [][StorageNext]_vars

\* ------------------------------------------------------------------------
\* Puzzle selection called directly (nonogram.ts, the rotation module)
\* ------------------------------------------------------------------------
\* calendar dates <<year, month, day>>: January 2026, and the turn of
\* February 2033
SelectDates ==
    {<<2026, 1, day>> : day \in 1..31} \cup {<<2033, 2, 27>>, <<2033, 2, 28>>, <<2033, 3, 1>>}

isLeapYear(y) == (y % 4 = 0 /\ y % 100 # 0) \/ y % 400 = 0

daysInMonth(y, m) ==
    IF m = 2 THEN (IF isLeapYear(y) THEN 29 ELSE 28)
    ELSE IF m \in {4, 6, 9, 11} THEN 30 ELSE 31

\* String(n).padStart(2, "0")
padStart2(n) == <<48 + (n \div 10), 48 + (n % 10)>>

\* `${year}-${month}-${day}` for a four-digit year
formatDateISO(date) ==
    <<48 + (date[1] \div 1000), 48 + ((date[1] \div 100) % 10),
      48 + ((date[1] \div 10) % 10), 48 + (date[1] % 10)>>
    \o <<45>> \o padStart2(date[2]) \o <<45>> \o padStart2(date[3])

\* new Date(y, m - 1, d) with setDate(getDate() - 1)
previousDate(date) ==
    IF date[3] > 1 THEN <<date[1], date[2], date[3] - 1>>
    ELSE IF date[2] > 1 THEN <<date[1], date[2] - 1, daysInMonth(date[1], date[2] - 1)>>
    ELSE <<date[1] - 1, 12, 31>>

\* hash, before Math.abs, after the loop of hashString(`${difficulty}:${dateISO}`),
\* tabulated for the dates above and the two days before each of them
HashTable ==
    [d \in Difficulties,
     date \in SelectDates \cup {previousDate(x) : x \in SelectDates}
                          \cup {previousDate(previousDate(x)) : x \in SelectDates} |->
        HashLoop(Seed(d, formatDateISO(date)))]

\* hashString(`${difficulty}:${dateISO}`) % pool.length
naiveIndex(pool, d, date) == AbsMod(HashTable[d, date], Len(pool))

\* an index that moves with the number of rotation records in storage
featuredIndexByRotation(pool, d, date) ==
    IF Len(pool) = 1 THEN 0
    ELSE (naiveIndex(pool, d, date) + Cardinality(DOMAIN lib.rotation)) % Len(pool)

\* getFeaturedPuzzle with pool = PUZZLES[difficulty]: the 0-based index
featuredIndexIn(pool, d, date) ==
    IF Len(pool) = 1 THEN 0
    ELSE IF naiveIndex(pool, d, date) = naiveIndex(pool, d, previousDate(date))
    THEN (naiveIndex(pool, d, date) + 1) % Len(pool)
    ELSE naiveIndex(pool, d, date)

\* a featured puzzle that falls back to the first easy puzzle
getFeaturedPuzzleOrFallback(pool, d, date) ==
    IF Len(pool) = 0 THEN << PUZZLES["easy"][1] >>
    ELSE << pool[featuredIndexIn(pool, d, date) + 1] >>

\* << >> when the call throws (empty pool)
getFeaturedPuzzleIn(pool, d, date) ==
    IF Len(pool) = 0 THEN << >> ELSE << pool[featuredIndexIn(pool, d, date) + 1] >>

\* pool.findIndex((p) => p.id === puzzleId), 0-based, -1 when not found
getPuzzleIndex(pool, id) ==
    IF \E n \in 1..Len(pool) : pool[n].id = id
    THEN (CHOOSE n \in 1..Len(pool) :
             pool[n].id = id /\ \A k \in 1..(n - 1) : pool[k].id # id) - 1
    ELSE -1

\* a scan that begins at the start index itself
getNextPuzzleNoRepeatInclusive(pool, d, date, alreadySeenIds, startFrom) ==
    IF Len(pool) = 0 THEN << >>
    ELSE IF startFrom # << >> /\ startFrom[1].id \notin alreadySeenIds THEN startFrom
    ELSE LET featured == IF startFrom # << >> THEN startFrom[1]
                         ELSE getFeaturedPuzzleIn(pool, d, date)[1]
             featuredIndex == getPuzzleIndex(pool, featured.id)
             startIndex == IF featuredIndex >= 0 THEN featuredIndex ELSE 0
             idx(offset) == (startIndex + offset) % Len(pool)
             unseen == {offset \in 0..(Len(pool) - 1) :
                           pool[idx(offset) + 1].id \notin alreadySeenIds}
         IN  IF unseen # {}
             THEN << pool[idx(CHOOSE o \in unseen : \A x \in unseen : o <= x) + 1] >>
             ELSE IF startFrom # << >> THEN startFrom ELSE << pool[1] >>

\* getNextPuzzleNoRepeat with pool = PUZZLES[difficulty]; startFrom is << >>
\* when not given; << >> when the call throws (empty pool)
getNextPuzzleNoRepeatIn(pool, d, date, alreadySeenIds, startFrom) ==
    IF Len(pool) = 0 THEN << >>
    ELSE IF startFrom # << >> /\ startFrom[1].id \notin alreadySeenIds THEN startFrom
    ELSE LET featured == IF startFrom # << >> THEN startFrom[1]
                         ELSE getFeaturedPuzzleIn(pool, d, date)[1]
             featuredIndex == getPuzzleIndex(pool, featured.id)
             startIndex == IF featuredIndex >= 0 THEN featuredIndex ELSE 0
             idx(offset) == (startIndex + offset) % Len(pool)
             unseen == {offset \in 1..Len(pool) : pool[idx(offset) + 1].id \notin alreadySeenIds}
         IN  IF unseen # {}
             THEN << pool[idx(CHOOSE o \in unseen : \A x \in unseen : o <= x) + 1] >>
             ELSE IF startFrom # << >> THEN startFrom ELSE << pool[1] >>

\* the values PUZZLES[difficulty] is given: the catalog's pool and its
\* non-empty prefixes up to MaxPool entries
Pools(d) ==
    {PUZZLES[d]} \cup
    {SubSeq(PUZZLES[d], 1, n) : n \in {m \in 1..MaxPool : m <= Len(PUZZLES[d])}}

\* the arguments of one selection call
FeaturedInputs ==
    {[fn |-> "featured", d |-> d, date |-> date, pool |-> pool] :
        d \in Difficulties, date \in SelectDates, pool \in UNION {Pools(x) : x \in Difficulties}}

\* seen lists over the first entries of the pool, with and without an id
\* that is in no pool, and the list of every id of the pool
SeenSets(pool) ==
    LET ids == {pool[n].id : n \in 1..Len(pool)}
        first == {pool[n].id : n \in {m \in 1..MaxPool : m <= Len(pool)}}
    IN  {x \cup y : x \in (SUBSET first) \cup {ids}, y \in {{}, {"retired-001"}}}

\* no start entry, one of the first entries of the pool, or an entry of
\* another pool
Anchors(d, pool) ==
    {<< >>} \cup {<< pool[n] >> : n \in {m \in 1..MaxPool : m <= Len(pool)}}
            \cup {<< PUZZLES[IF d = "easy" THEN "medium" ELSE "easy"][1] >>}

UnseenInputs ==
    UNION {UNION {{[fn |-> "unseen", d |-> d, date |-> <<2026, 1, day>>, pool |-> pool,
                    seen |-> seen, anchor |-> anchor] :
                       day \in Days, seen \in SeenSets(pool), anchor \in Anchors(d, pool)} :
                  pool \in Pools(d)} : d \in Difficulties}

SelectInputs == {i \in FeaturedInputs : i.pool \in Pools(i.d)} \cup UnseenInputs

SelectInit ==
    /\ sessions = << >>
    /\ HomeInit
    /\ lib \in {[NoCall EXCEPT !.input = i] : i \in SelectInputs}

\* the call is recorded with the rotation records of the moment
getFeaturedPuzzleCall ==
    /\ lib.calls < MaxCalls
    /\ lib.input.fn = "featured"
    /\ LET i == lib.input
           result == getFeaturedPuzzleIn(i.pool, i.d, i.date)
       IN  Call([lib EXCEPT !.featured = <<"returned", result, lib.rotation>>],
                "featured", <<i.d, i.date>>, lib.rotation, FALSE, result, {}, Len(i.pool) = 0)
    /\ UNCHANGED <<storageVars, wallDay, homeVars>>

getNextPuzzleNoRepeatCall ==
    /\ lib.calls < MaxCalls
    /\ lib.input.fn = "unseen"
    /\ LET i == lib.input
           result == getNextPuzzleNoRepeatIn(i.pool, i.d, i.date, i.seen, i.anchor)
       IN  Call(lib, "unseen", <<i.d, i.date>>, lib.rotation, FALSE, result, {},
                Len(i.pool) = 0)
    /\ UNCHANGED <<storageVars, wallDay, homeVars>>

SelectNext ==
    \/ getFeaturedPuzzleCall
    \/ getNextPuzzleNoRepeatCall
    \/ pickNextFromPoolCall

SelectSpec == SelectInit /\ [][SelectNext]_vars

\* ------------------------------------------------------------------------
\* The rotation of one pool, advanced call after call (advancePool)
\* ------------------------------------------------------------------------
advancePool(pool, store, rotationKey, fails) ==
    pickNextFromPool(pool, store, rotationKey, fails)

PoolIds(pool) == {pool[n].id : n \in 1..Len(pool)}

\* usedIds a store can hold for the pool: ids of the pool and an id of a
\* puzzle that has left it, each once, in any order
StartingUsedIds(pool) ==
    LET ids == PoolIds(pool) \cup {"retired-001"}
        lists == UNION {[1..n -> ids] : n \in 0..Cardinality(ids)}
    IN  {l \in lists : \A i, j \in DOMAIN l : l[i] = l[j] => i = j}

LastOf(ids) == IF ids = << >> THEN "" ELSE ids[Len(ids)]

\* no record under the key, or a record with the given usedIds
RotationStores(pool) ==
    {<< >>} \cup
    {[k \in {getRotationKey("easy")} |-> rotationText([usedIds |-> u, lastId |-> LastOf(u)])] :
        u \in StartingUsedIds(pool)}

RotationInputs ==
    {[fn |-> "rotate", d |-> "easy", pool |-> pool] :
        pool \in {SubSeq(PUZZLES.easy, 1, n) : n \in 1..MaxPool}}

RotationInit ==
    /\ sessions = << >>
    /\ HomeInit
    /\ \E i \in RotationInputs : \E store \in RotationStores(i.pool) :
          lib = [NoCall EXCEPT !.input = i, !.rotation = store, !.seen = store]

\* lib.seen keeps the store of the start, lib.arg the store before the call,
\* lib.picked the ids returned so far
advancePoolCall ==
    /\ lib.calls < MaxPicks
    /\ lib.input.fn = "rotate"
    /\ \E fails \in BOOLEAN :
         LET i == lib.input
             out == advancePool(i.pool, lib.rotation, getRotationKey(i.d), fails)
             ids == IF out.threw THEN lib.picked ELSE Append(lib.picked, out.picked[1].id)
         IN  Call([lib EXCEPT !.rotation = out.store, !.picked = ids], "advance", << i.d >>,
                  lib.rotation, fails, out.picked, {}, out.threw)
    /\ UNCHANGED <<storageVars, wallDay, homeVars>>

RotationNext == advancePoolCall

RotationSpec == RotationInit /\ [][RotationNext]_vars

\* ------------------------------------------------------------------------
\* The solve evaluator called directly (nonogram.ts isSolved)
\* ------------------------------------------------------------------------
\* every grid of empty, filled and marked cells of the given size
AllPlayerGrids(n) == [1..n -> [1..n -> {0, 1, 2}]]

\* the solution as a player grid, and every grid one cell away from it
NearPlayerGrids(sol) ==
    {sol} \cup
    {[sol EXCEPT ![r][c] = v] : r \in 1..Len(sol), c \in 1..Len(sol), v \in {0, 1, 2}}

\* every grid for the easy puzzles, the grids next to the solution for the
\* larger ones
EvalInputs ==
    UNION {{[fn |-> "solve", id |-> p.id, solution |-> p.solution, player |-> g] :
               g \in IF p.size = PUZZLES.easy[1].size THEN AllPlayerGrids(p.size)
                      ELSE NearPlayerGrids(p.solution)} :
           p \in UNION {{PUZZLES[d][n] : n \in 1..Len(PUZZLES[d])} : d \in Difficulties}}

EvalInit ==
    /\ sessions = << >>
    /\ HomeInit
    /\ lib \in {[NoCall EXCEPT !.input = i] : i \in EvalInputs}

isSolvedCall ==
    /\ lib.calls < MaxCalls
    /\ lib.input.fn = "solve"
    /\ LET i == lib.input
       IN  Call(lib, "isSolved", << i.id >>, i.player, FALSE,
                << isSolved(i.player, i.solution) >>, {}, isSolvedThrows(i.player, i.solution))
    /\ UNCHANGED <<storageVars, wallDay, homeVars>>

EvalNext == isSolvedCall

EvalSpec == EvalInit /\ [][EvalNext]_vars

\* ------------------------------------------------------------------------
\* useGameLogic (hooks/useGameLogic.ts), one instance of the hook whose
\* storageKey prop the parent may change; its state is the record lib.hook
\* ------------------------------------------------------------------------
\* 'nonogram:<difficulty>:<date>:<puzzle-id>:v1' for two puzzles of one size
HookKeys == {<<"easy", FirstDay, PUZZLES.easy[1].id>>, <<"easy", FirstDay + 1, PUZZLES.easy[2].id>>}

gridSize == PUZZLES.easy[1].size

\* the five useState initial values
HookInitialState ==
    [playerGrid |-> createEmptyGrid(gridSize), undoStack |-> << >>, redoStack |-> << >>,
     timerSeconds |-> 0, timerRunning |-> FALSE]

HookStateOf(h) ==
    [playerGrid |-> h.playerGrid, undoStack |-> h.undoStack, redoStack |-> h.redoStack,
     timerSeconds |-> h.timerSeconds, timerRunning |-> h.timerRunning]

\* JSON.stringify(state) of the auto-save effect
HookStringify(st) ==
    <<"object", st.playerGrid, st.undoStack, st.redoStack, st.timerSeconds, st.timerRunning>>

\* JSON.parse(saved) and the five field checks of the load effect
HookParse(text) ==
    [playerGrid |-> text[2], undoStack |-> text[3], redoStack |-> text[4],
     timerSeconds |-> text[5], timerRunning |-> text[6]]

\* what the hook finds stored at the start: nothing, or an attempt under
\* either key left by an earlier visit
HookStoredStates ==
    {[HookInitialState EXCEPT !.playerGrid = g, !.undoStack = u, !.timerSeconds = t] :
        g \in {PUZZLES.easy[1].solution, PUZZLES.easy[2].solution},
        u \in {<< >>, << createEmptyGrid(gridSize) >>},
        t \in 0..MaxSeconds}

HookStores ==
    {<< >>} \cup
    UNION {{[k \in {key} |-> HookStringify(st)] : st \in HookStoredStates} : key \in HookKeys}

\* the hook as mounted: first render done, both effects pending
HookMounted(key, store) ==
    [storageKey |-> key, playerGrid |-> HookInitialState.playerGrid,
     undoStack |-> << >>, redoStack |-> << >>, timerSeconds |-> 0, timerRunning |-> FALSE,
     hasLoadedRef |-> FALSE, store |-> store, phase |-> "effects",
     loadPending |-> TRUE, savePending |-> TRUE,
     lastEvent |-> "mount", events |-> 0, before |-> store]

HookInit ==
    /\ sessions = << >>
    /\ HomeInit
    /\ \E key \in HookKeys, store \in HookStores :
          lib = [NoCall EXCEPT !.hook = HookMounted(key, store)]

\* the load effect, deps [storageKey]: the state it sets, << >> for none
HookLoadEffect(h) ==
    IF ~h.loadPending \/ h.hasLoadedRef THEN << >>
    ELSE IF h.storageKey \in DOMAIN h.store THEN << HookParse(h.store[h.storageKey]) >>
    ELSE << >>

\* the auto-save effect, deps the five values and storageKey: it writes the
\* values of the render it belongs to
HookSaveEffect(h, hasLoaded) ==
    IF h.savePending /\ hasLoaded
    THEN [k \in DOMAIN h.store \cup {h.storageKey} |->
            IF k = h.storageKey THEN HookStringify(HookStateOf(h)) ELSE h.store[k]]
    ELSE h.store

\* the effects of one commit, in the order of their declaration
hookRunEffects ==
    /\ lib.hook.phase = "effects"
    /\ LET h == lib.hook
           loaded == HookLoadEffect(h)
           hasLoaded == h.hasLoadedRef \/ h.loadPending
           store == HookSaveEffect(h, hasLoaded)
           st == IF loaded = << >> THEN HookStateOf(h) ELSE loaded[1]
       IN  lib' = [lib EXCEPT !.hook =
                     [h EXCEPT !.playerGrid = st.playerGrid, !.undoStack = st.undoStack,
                               !.redoStack = st.redoStack, !.timerSeconds = st.timerSeconds,
                               !.timerRunning = st.timerRunning,
                               !.hasLoadedRef = hasLoaded, !.store = store,
                               !.loadPending = FALSE, !.savePending = loaded # << >>,
                               !.phase = IF loaded # << >> THEN "effects" ELSE "idle"]]
    /\ UNCHANGED <<storageVars, wallDay, homeVars>>

\* an event handler that sets state: the next commit runs the auto-save effect
HookEvent(name, st) ==
    /\ lib.hook.phase = "idle"
    /\ lib.hook.events < MaxHookEvents
    /\ lib' = [lib EXCEPT !.hook =
                 [@ EXCEPT !.playerGrid = st.playerGrid, !.undoStack = st.undoStack,
                           !.redoStack = st.redoStack, !.timerSeconds = st.timerSeconds,
                           !.timerRunning = st.timerRunning,
                           !.phase = "effects", !.savePending = TRUE,
                           !.lastEvent = name, !.events = @ + 1]]
    /\ UNCHANGED <<storageVars, wallDay, homeVars>>

\* a click cycles one cell: empty, filled, marked
hookHandleGridChange ==
    /\ Len(lib.hook.undoStack) < MaxUndo
    /\ \E r, c \in 1..gridSize :
         LET h == lib.hook
             nextGrid == [h.playerGrid EXCEPT ![r][c] = (@ + 1) % 3]
         IN  HookEvent("edit", [HookStateOf(h) EXCEPT !.playerGrid = nextGrid,
                                                     !.undoStack = Append(@, h.playerGrid),
                                                     !.redoStack = << >>])

hookHandleUndo ==
    /\ lib.hook.undoStack # << >>
    /\ LET h == lib.hook
           n == Len(h.undoStack)
       IN  HookEvent("undo", [HookStateOf(h) EXCEPT !.playerGrid = h.undoStack[n],
                                                   !.undoStack = SubSeq(@, 1, n - 1),
                                                   !.redoStack = Append(@, h.playerGrid)])

hookHandleRedo ==
    /\ lib.hook.redoStack # << >>
    /\ LET h == lib.hook
           n == Len(h.redoStack)
       IN  HookEvent("redo", [HookStateOf(h) EXCEPT !.playerGrid = h.redoStack[n],
                                                   !.redoStack = SubSeq(@, 1, n - 1),
                                                   !.undoStack = Append(@, h.playerGrid)])

\* localStorage.removeItem(storageKey), then the five initial values
hookHandleReset ==
    /\ lib.hook.phase = "idle"
    /\ lib.hook.events < MaxHookEvents
    /\ LET h == lib.hook
           store == [k \in DOMAIN h.store \ {h.storageKey} |-> h.store[k]]
       IN  lib' = [lib EXCEPT !.hook =
                     [HookMounted(h.storageKey, store) EXCEPT
                         !.hasLoadedRef = h.hasLoadedRef, !.loadPending = FALSE,
                         !.lastEvent = "reset", !.events = h.events + 1,
                         !.before = h.before]]
    /\ UNCHANGED <<storageVars, wallDay, homeVars>>

\* the parent's timer: setTimerSeconds(s + 1) on a running timer
hookSetTimerSeconds ==
    /\ lib.hook.timerRunning
    /\ lib.hook.timerSeconds < MaxSeconds
    /\ HookEvent("tick", [HookStateOf(lib.hook) EXCEPT !.timerSeconds = @ + 1])

hookSetTimerRunning ==
    /\ lib.hook.timerSeconds <= MaxSeconds
    /\ HookEvent("run", [HookStateOf(lib.hook) EXCEPT !.timerRunning = ~@])

\* the parent renders the hook with another storageKey: both effects have
\* storageKey among their deps
hookKeyChange ==
    /\ lib.hook.phase = "idle"
    /\ lib.hook.events < MaxHookEvents
    /\ \E key \in HookKeys \ {lib.hook.storageKey} :
         lib' = [lib EXCEPT !.hook =
                   [@ EXCEPT !.storageKey = key, !.phase = "effects",
                             !.loadPending = TRUE, !.savePending = TRUE,
                             !.lastEvent = "key", !.events = @ + 1,
                             !.before = lib.hook.store]]
    /\ UNCHANGED <<storageVars, wallDay, homeVars>>

\* the page is loaded again: the hook is mounted anew on the same key
hookRemount ==
    /\ lib.hook.phase = "idle"
    /\ lib.hook.events < MaxHookEvents
    /\ lib' = [lib EXCEPT !.hook =
                 [HookMounted(@.storageKey, @.store) EXCEPT !.events = lib.hook.events + 1]]
    /\ UNCHANGED <<storageVars, wallDay, homeVars>>

HookNext ==
    \/ hookRunEffects
    \/ hookHandleGridChange
    \/ hookHandleUndo
    \/ hookHandleRedo
    \/ hookHandleReset
    \/ hookSetTimerSeconds
    \/ hookSetTimerRunning
    \/ hookKeyChange
    \/ hookRemount

HookSpec == HookInit /\ [][HookNext]_vars

\* ------------------------------------------------------------------------
\* src/app/page.tsx: Home with the daily seen list and the New puzzle
\* button.  The component and the two stores only it uses (the seen lists
\* and the per-puzzle progress records) are the record lib.page; the solved
\* markers, the statistics and the wall clock are the variables above.
\* Of the Stats object the solved counters are kept; seenTodayByDifficulty,
\* which only the statistics dialog reads, is left out.
\* ------------------------------------------------------------------------
makeDailySeenKey(d, day) == <<d, day>>

\* [] when the item is missing
loadSeenIds(store, key) == IF key \in DOMAIN store THEN store[key] ELSE << >>

\* Array.from(new Set(ids)) is written
saveSeenIds(store, key, ids) ==
    [k \in DOMAIN store \cup {key} |-> IF k = key THEN Unique(ids) ELSE store[k]]

clearSeenIds(store, key) == [k \in DOMAIN store \ {key} |-> store[k]]

\* `nonogram:${difficulty}:${todayISO}:${puzzleId}:v1`
pageStorageKey(d, day, id) == <<d, day, id>>

isValidPlayerGridStack(stack, n) ==
    \A i \in 1..Len(stack) : isValidPlayerGrid(stack[i], n)

\* << >> stands for null
loadProgress(store, key, n) ==
    IF key \notin DOMAIN store THEN << >>
    ELSE LET parsed == store[key]
         IN  IF ~isValidPlayerGrid(parsed.playerGrid, n) THEN << >>
             ELSE << [playerGrid |-> parsed.playerGrid,
                      undoStack |-> IF isValidPlayerGridStack(parsed.undoStack, n)
                                    THEN parsed.undoStack ELSE << >>,
                      redoStack |-> IF isValidPlayerGridStack(parsed.redoStack, n)
                                    THEN parsed.redoStack ELSE << >>] >>

saveProgress(store, key, grid, undo, redo) ==
    [k \in DOMAIN store \cup {key} |->
        IF k = key THEN [playerGrid |-> grid, undoStack |-> undo, redoStack |-> redo]
        ELSE store[k]]

isPuzzleMarkedSolved(markers, d, id) == <<d, id>> \in markers

\* const puzzle = useMemo(...): pool.find(...) ?? pool[0]; "" stands for null
pagePuzzle(d, activeId) ==
    LET pool == PUZZLES[d]
    IN  IF Len(pool) = 0 THEN PUZZLES["easy"][1]
        ELSE IF getPuzzleIndex(pool, activeId) >= 0
        THEN pool[getPuzzleIndex(pool, activeId) + 1]
        ELSE pool[1]

\* getFeaturedPuzzle(difficulty, todayISO) of a pool that is not empty, read
\* from the table of the modelled days
pageFeatured(d, day) == puzzle(d, day)

pagePuzzleId(p) == pagePuzzle(p.difficulty, p.activePuzzleId).id

\* the ids of a list
IdsOf(ids) == {ids[i] : i \in 1..Len(ids)}

\* pool.filter((p) => !seenSet.has(p.id)).length, from the seenIdsToday state
remainingCount(p) ==
    LET pool == PUZZLES[p.difficulty]
    IN  Cardinality({n \in 1..Len(pool) : pool[n].id \notin IdsOf(p.seenIdsToday)})

\* the component after its first render, before any effect has run
PageMounted(seenStore, progress, day) ==
    [difficulty |-> "easy", todayISO |-> day, activePuzzleId |-> "",
     seenIdsToday |-> << >>,
     playerGrid |-> createEmptyGrid(pagePuzzle("easy", "").size),
     undoStack |-> << >>, redoStack |-> << >>, checkMessage |-> "",
     stats |-> createDefaultStats,
     activePuzzleIdRef |-> "", hasLoadedRef |-> FALSE,
     seenStore |-> seenStore, progress |-> progress,
     phase |-> "effects", changed |-> {"mount"},
     lastEvent |-> "mount", events |-> 0, presses |-> 0,
     emptyAtMount |-> loadSeenIds(seenStore, makeDailySeenKey("easy", day)) = << >>,
     cycle |-> << >>, resetTo |-> << >>]

PageInit ==
    /\ sessions = << >>
    /\ HomeInit
    /\ lib = [NoCall EXCEPT !.page = PageMounted(<< >>, << >>, FirstDay)]

\* the mutable context the effects of one pass work on: localStorage, the
\* refs and the queued state updates
PageContext(p) ==
    [seenStore |-> p.seenStore, progress |-> p.progress,
     solvedMarkers |-> solvedMarkers, statsStore |-> statsStore,
     activePuzzleIdRef |-> p.activePuzzleIdRef, hasLoadedRef |-> p.hasLoadedRef,
     activePuzzleId |-> p.activePuzzleId, seenIdsToday |-> p.seenIdsToday,
     playerGrid |-> p.playerGrid, undoStack |-> p.undoStack, redoStack |-> p.redoStack,
     checkMessage |-> p.checkMessage, stats |-> p.stats, replaced |-> {}]

PageKeyChanged(p) ==
    "mount" \in p.changed \/ "difficulty" \in p.changed \/ "todayISO" \in p.changed

PageStorageKeyChanged(p) == PageKeyChanged(p) \/ "puzzleId" \in p.changed

\* activePuzzleIdRef.current = activePuzzleId, deps [activePuzzleId]
PageRefEffect(p, m) ==
    IF ~("mount" \in p.changed \/ "activePuzzleId" \in p.changed) THEN m
    ELSE [m EXCEPT !.activePuzzleIdRef = p.activePuzzleId]

\* the puzzle-pick effect, deps [difficulty, todayISO, pool]
PagePickEffect(p, m) ==
    LET pool == PUZZLES[p.difficulty]
        loadedSeenIds == loadSeenIds(m.seenStore, makeDailySeenKey(p.difficulty, p.todayISO))
        currentId == m.activePuzzleIdRef
        featured == pageFeatured(p.difficulty, p.todayISO)
        puzzleToPlay ==
            IF featured.id \in IdsOf(loadedSeenIds)
            THEN getNextPuzzleNoRepeatIn(pool, p.difficulty, <<2026, 1, p.todayISO>>,
                                         IdsOf(loadedSeenIds), << featured >>)[1]
            ELSE featured
    IN  IF ~PageKeyChanged(p) \/ Len(pool) = 0 THEN m
        ELSE IF currentId # "" /\ getPuzzleIndex(pool, currentId) >= 0
        THEN [m EXCEPT !.seenIdsToday = loadedSeenIds]
        ELSE [m EXCEPT !.seenIdsToday = loadedSeenIds, !.activePuzzleId = puzzleToPlay.id]

\* what the mark-seen effect makes of the loaded list
pageMarkSeenNothing(loaded, id) == loaded

pageMarkSeen(loaded, id) ==
    IF id \in IdsOf(loaded) THEN loaded ELSE Append(loaded, id)

\* the mark-seen effect, deps [difficulty, todayISO, puzzleId, pool.length]
PageMarkSeenEffect(p, m) ==
    LET seenKey == makeDailySeenKey(p.difficulty, p.todayISO)
        loaded == loadSeenIds(m.seenStore, seenKey)
        updated == pageMarkSeen(loaded, pagePuzzleId(p))
    IN  IF ~PageStorageKeyChanged(p) \/ Len(PUZZLES[p.difficulty]) = 0 THEN m
        ELSE [m EXCEPT !.seenStore = IF updated # loaded
                                     THEN saveSeenIds(@, seenKey, updated) ELSE @,
                       !.seenIdsToday = updated]

\* load stats, deps [todayISO]
PageStatsLoadEffect(p, m) ==
    IF ~("mount" \in p.changed \/ "todayISO" \in p.changed) THEN m
    ELSE LET loaded == loadStats(m.statsStore)
             needsSave == loaded.lastSolvedDateISO # p.todayISO
             result == IF needsSave
                       THEN [loaded EXCEPT !.solvedToday = 0, !.lastSolvedDateISO = p.todayISO]
                       ELSE loaded
         IN  [m EXCEPT !.statsStore = IF needsSave THEN saveStats(result) ELSE @,
                       !.stats = result]

\* update stats when a puzzle is solved, deps [checkMessage, difficulty,
\* puzzleId, todayISO]: checkMessage is the value of the render
PageSolvedEffect(p, m) ==
    IF ~(PageStorageKeyChanged(p) \/ "checkMessage" \in p.changed) THEN m
    ELSE IF p.checkMessage # "solved" THEN m
    ELSE IF isPuzzleMarkedSolved(m.solvedMarkers, p.difficulty, pagePuzzleId(p)) THEN m
    ELSE LET newStats == SolvedStats(m.stats, p.difficulty, p.todayISO)
         IN  [m EXCEPT !.solvedMarkers = markPuzzleSolved(@, p.difficulty, pagePuzzleId(p)),
                       !.statsStore = saveStats(newStats),
                       !.stats = newStats]

\* the load effect, deps [storageKey, size]
PageLoadEffect(p, m) ==
    IF ~PageStorageKeyChanged(p) THEN m
    ELSE LET pz == pagePuzzle(p.difficulty, p.activePuzzleId)
             saved == loadProgress(m.progress,
                                   pageStorageKey(p.difficulty, p.todayISO, pz.id), pz.size)
         IN  [m EXCEPT !.playerGrid = IF saved # << >> THEN saved[1].playerGrid
                                      ELSE createEmptyGrid(pz.size),
                       !.undoStack = IF saved # << >> THEN saved[1].undoStack ELSE << >>,
                       !.redoStack = IF saved # << >> THEN saved[1].redoStack ELSE << >>,
                       !.checkMessage = "",
                       !.hasLoadedRef = TRUE,
                       !.replaced = @ \cup {"grid"}]

\* the save effect, deps [storageKey, playerGrid, undoStack, redoStack]: it
\* writes the values of the render
PageSaveEffect(p, m) ==
    IF ~(PageStorageKeyChanged(p) \/ "grid" \in p.changed) THEN m
    ELSE IF ~m.hasLoadedRef THEN m
    ELSE [m EXCEPT !.progress =
             saveProgress(@, pageStorageKey(p.difficulty, p.todayISO, pagePuzzleId(p)),
                          p.playerGrid, p.undoStack, p.redoStack)]

PageEffects(p) ==
    PageSaveEffect(p,
      PageLoadEffect(p,
        PageSolvedEffect(p,
          PageStatsLoadEffect(p,
            PageMarkSeenEffect(p,
              PagePickEffect(p,
                PageRefEffect(p, PageContext(p))))))))

\* Apply a batch of state updates n to the component p: the names of the
\* dependencies that are no longer equal, and the next phase
PageCommit(p, n, replaced) ==
    LET ch == {name \in {"difficulty", "todayISO", "activePuzzleId", "checkMessage"} :
                  n[name] # p[name]}
              \cup (IF pagePuzzle(n.difficulty, n.activePuzzleId).id # pagePuzzleId(p)
                    THEN {"puzzleId"} ELSE {})
              \cup replaced
    IN  [n EXCEPT !.changed = ch, !.phase = IF ch = {} THEN "idle" ELSE "effects"]

\* one pass of effects, in the order of their declaration; m is the context
\* after the last effect and n the component after the queued updates
pageRunEffects ==
    /\ lib.page.phase = "effects"
    /\ \E m \in {PageEffects(lib.page)} :
       \E n \in {PageCommit(lib.page,
                    [lib.page EXCEPT !.activePuzzleId = m.activePuzzleId,
                              !.seenIdsToday = m.seenIdsToday,
                              !.playerGrid = m.playerGrid, !.undoStack = m.undoStack,
                              !.redoStack = m.redoStack, !.checkMessage = m.checkMessage,
                              !.stats = m.stats,
                              !.activePuzzleIdRef = m.activePuzzleIdRef,
                              !.hasLoadedRef = m.hasLoadedRef,
                              !.seenStore = m.seenStore, !.progress = m.progress],
                    m.replaced)} :
           /\ lib' = [lib EXCEPT !.page =
                        [n EXCEPT !.cycle = IF n.phase = "idle" /\ lib.page.lastEvent = "mount"
                                               /\ lib.page.emptyAtMount /\ lib.page.cycle = << >>
                                            THEN << pagePuzzleId(n) >> ELSE @]]
           /\ solvedMarkers' = m.solvedMarkers
           /\ statsStore' = m.statsStore
    /\ UNCHANGED <<sessions, timers, wallDay, homeVars>>

\* an event handler of the settled component
PageEvent(name, n, replaced) ==
    /\ lib.page.phase = "idle"
    /\ lib.page.events < MaxPageEvents
    /\ lib' = [lib EXCEPT !.page =
                 [PageCommit(lib.page, n, replaced) EXCEPT !.lastEvent = name,
                                                          !.events = @ + 1]]
    /\ UNCHANGED <<storageVars, wallDay, homeVars>>

\* the grid the board hands to onChange: the solution of the puzzle
PagePaintInputs(p) ==
    LET sol == pagePuzzle(p.difficulty, p.activePuzzleId).solution
    IN  {sol}

pageHandleGridChange ==
    /\ Len(lib.page.undoStack) < MaxUndo
    /\ \E nextGrid \in PagePaintInputs(lib.page) :
         /\ nextGrid # lib.page.playerGrid
         /\ PageEvent("edit",
                [lib.page EXCEPT !.playerGrid = nextGrid,
                                 !.undoStack = Append(@, lib.page.playerGrid),
                                 !.redoStack = << >>,
                                 !.checkMessage = ""],
                {"grid"})

pageHandleReset ==
    /\ lib.page.events < MaxPageEvents
    /\ PageEvent("reset",
           [lib.page EXCEPT
               !.playerGrid = createEmptyGrid(pagePuzzle(lib.page.difficulty,
                                                         lib.page.activePuzzleId).size),
               !.undoStack = << >>, !.redoStack = << >>, !.checkMessage = ""],
           {"grid"})

\* the Check button is disabled while the solved result is displayed
pageHandleCheck ==
    /\ lib.page.checkMessage # "solved"
    /\ LET p == lib.page
           sol == pagePuzzle(p.difficulty, p.activePuzzleId).solution
       IN  /\ Len(p.playerGrid) = Len(sol)
           /\ PageEvent("check",
                  [p EXCEPT !.checkMessage = IF isSolved(p.playerGrid, sol)
                                             THEN "solved" ELSE "not-solved"],
                  {})

pageHandleDifficultyChange ==
    \E newDifficulty \in Difficulties \ {lib.page.difficulty} :
        /\ ButtonEnabled(newDifficulty)
        /\ PageEvent("difficulty",
               [lib.page EXCEPT !.difficulty = newDifficulty, !.cycle = << >>], {})

\* the New puzzle button, disabled for a pool of one
pageHandleNewPuzzle ==
    /\ lib.page.phase = "idle"
    /\ lib.page.presses < MaxPresses
    /\ Len(PUZZLES[lib.page.difficulty]) > 1
    /\ LET p == lib.page
           pool == PUZZLES[p.difficulty]
           date == <<2026, 1, p.todayISO>>
           seenKey == makeDailySeenKey(p.difficulty, p.todayISO)
           loadedSeen == loadSeenIds(p.seenStore, seenKey)
           seen == Unique(Append(loadedSeen, pagePuzzleId(p)))
           store1 == saveSeenIds(p.seenStore, seenKey, seen)
           featured == pageFeatured(p.difficulty, p.todayISO)
           next1 == getNextPuzzleNoRepeatIn(pool, p.difficulty, date,
                                            IdsOf(seen), << featured >>)[1]
           allSeen == next1.id \in IdsOf(seen)
           next == IF allSeen
                   THEN getNextPuzzleNoRepeatIn(pool, p.difficulty, date, {},
                                                << featured >>)[1]
                   ELSE next1
           store2 == IF allSeen
                     THEN saveSeenIds(clearSeenIds(store1, seenKey), seenKey, << next.id >>)
                     ELSE store1
           n == [p EXCEPT !.seenStore = store2,
                          !.seenIdsToday = IF allSeen THEN << next.id >> ELSE seen,
                          !.activePuzzleId = next.id,
                          !.checkMessage = ""]
       IN  lib' = [lib EXCEPT !.page =
                     [PageCommit(p, n, {}) EXCEPT
                         !.lastEvent = "new", !.presses = @ + 1,
                         !.cycle = IF @ # << >> THEN Append(@, next.id) ELSE @,
                         !.resetTo = IF allSeen THEN << next.id >> ELSE << >>]]
    /\ UNCHANGED <<storageVars, wallDay, homeVars>>

\* the page is loaded again: localStorage is all that survives
pageReload ==
    /\ lib.page.phase = "idle"
    /\ lib.page.events < MaxPageEvents
    /\ lib' = [lib EXCEPT !.page =
                 [PageMounted(@.seenStore, @.progress, wallDay) EXCEPT
                     !.events = lib.page.events + 1, !.presses = lib.page.presses]]
    /\ UNCHANGED <<storageVars, wallDay, homeVars>>

\* the wall clock passes midnight
pageMidnight ==
    /\ lib.page.phase = "idle"
    /\ lib.page.events < MaxPageEvents
    /\ wallDay < FirstDay + MaxDays
    /\ wallDay' = wallDay + 1
    /\ lib' = [lib EXCEPT !.page.lastEvent = "midnight", !.page.events = @ + 1]
    /\ UNCHANGED <<storageVars, homeVars>>

\* the 60 s interval: setTodayISO((prev) => (prev === next ? prev : next))
pagePoll ==
    /\ lib.page.todayISO # wallDay
    /\ PageEvent("poll", [lib.page EXCEPT !.todayISO = wallDay, !.cycle = << >>], {})

PageNext ==
    \/ pageRunEffects
    \/ pageHandleGridChange
    \/ pageHandleReset
    \/ pageHandleCheck
    \/ pageHandleDifficultyChange
    \/ pageHandleNewPuzzle
    \/ pageReload
    \/ pageMidnight
    \/ pagePoll

PageSpec == PageInit /\ [][PageNext]_vars

\* ------------------------------------------------------------------------
\* Home opened on a store whose attempt key of the day holds a value that
\* saveGameSession did not write
\* ------------------------------------------------------------------------
CorruptStores ==
    {[k \in {getStorageKey("easy", FirstDay)} |-> text] :
        text \in ForeignTexts("easy", FirstDay)}

CorruptInit ==
    /\ sessions \in CorruptStores
    /\ HomeInit
    /\ lib = NoCall

CorruptSpec == CorruptInit /\ [][Next]_vars

\* ------------------------------------------------------------------------
\* Properties
\* ------------------------------------------------------------------------
\* the attempt record stored under the key of the rendered puzzle
CurrentRecord == RawRecord(sessions, getStorageKey(difficulty, todayISO))

Settled == phase = "idle"

\* C1: a load that finds an attempt stored as solved never opens the victory
\* modal: from the load on, through every re-run of the auto-check and
\* through any number of further such loads, the modal stays closed as long
\* as the grid is not edited.
C1_SolvedLoadNeverShows ==
    (hist.loaded = "solved" /\ ~hist.edited) => ~victoryOpen

\* two loads of a solved attempt in a row, the auto-check has run again on
\* the loaded grid and reported solved
C1_Witness ==
    /\ Settled
    /\ hist.solvedLoads >= 2
    /\ hist.loaded = "solved"
    /\ ~hist.edited
    /\ evalTrace.evalSolved
    /\ gameStatus = "solved"

GridEvents == {"edit", "undo", "redo"}

\* C2: in a loaded session, when the edits take the grid from unsolved to
\* solved exactly once, the victory modal has been opened exactly once and
\* the solved counter has been incremented exactly once, however often the
\* auto-check has run since.
C2_OneTransitionShowsOnce ==
    (Settled /\ hist.transitions = 1) => (hist.shown = 1 /\ hist.counted = 1)

\* C3: after Restart, solving the grid again opens the victory modal again:
\* once the grid has gone from unsolved to solved after the restart, the
\* modal has been opened once more, the shown flag is set, and the modal is
\* open until it is dismissed.
C3_RestartReArms ==
    (Settled /\ hist.restarted /\ hist.transitions >= 1)
        => /\ hist.shown = 1
           /\ hasShownVictoryModalRef
           /\ (~hist.dismissed => victoryOpen)

\* the modal had been shown, the attempt was restarted and solved again, and
\* the modal is open again
C3_Witness ==
    /\ Settled
    /\ hist.restarted
    /\ hist.shownBeforeRestart
    /\ hist.transitions = 1
    /\ hist.shown = 1
    /\ victoryOpen
    /\ gameStatus = "solved"

\* C4: whenever a grid edit takes the grid from unsolved to solved while the
\* shown flag is not set, the auto-check that follows the edit opens the
\* victory modal and sets the shown flag, whatever status the attempt was
\* loaded with.
C4_SolvingEditShows ==
    [][(/\ RunEffects
        /\ lastEvent \in GridEvents
        /\ "playerGrid" \in changed
        /\ hist.solving
        /\ isSolved(playerGrid, solution)
        /\ ~hasShownVictoryModalRef)
       => (victoryOpen' /\ hasShownVictoryModalRef')]_vars

\* C5: after a switch of difficulty or of puzzle (the date poll), and as long
\* as the grid of the new puzzle has not been edited, the victory modal is
\* closed.
C5_SwitchNeverShows ==
    (hist.trigger \in {"difficulty", "poll"} /\ hist.loaded # "pending" /\ ~hist.edited)
        => ~victoryOpen

\* C6: the auto-check never runs in the effect pass of a load trigger, that
\* is before the loaded grid, the restored status and the modal reset are
\* applied: it never compares the solution of the new puzzle with the
\* default grid or with the grid of the previous puzzle.
C6_NoEvaluationBeforeLoadApplied ==
    ~(evalTrace.loadRan /\ evalTrace.evalRan)

\* the record saveGameSession writes for a fresh attempt
FreshRecord ==
    [grid |-> createEmptyGrid(size), undoStack |-> << >>, redoStack |-> << >>,
     timerSeconds |-> 0, status |-> "in_progress", lastSavedDate |-> getTodayISO]

\* C7: Restart, from any state, leaves the grid empty, the undo and redo
\* stacks empty, the status in_progress, the victory modal closed, the shown
\* flag cleared and the elapsed time 0; once its effects have run, the record
\* stored under the current key is that of a fresh attempt.
C7_RestartResets ==
    (lastEvent = "reset")
        => /\ playerGrid = createEmptyGrid(size)
           /\ undoStack = << >>
           /\ redoStack = << >>
           /\ gameStatus = "in_progress"
           /\ ~victoryOpen
           /\ ~hasShownVictoryModalRef
           /\ seconds = 0
           /\ (Settled => CurrentRecord = << FreshRecord >>)

\* a restart of an attempt that had been solved and shown, with the fresh
\* record stored
C7_Witness ==
    /\ lastEvent = "reset"
    /\ Settled
    /\ hist.shownBeforeRestart
    /\ CurrentRecord = << FreshRecord >>

\* C8: after a switch of difficulty or a date rollover seen by the poll, the
\* record stored under the key that was current before the switch is what it
\* was at the switch: nothing is written to the old key.
C8_OldKeyUntouched ==
    (hist.oldKey # << >>) => RawRecord(sessions, hist.oldKey) = hist.oldRecord

\* a switch away from a key that holds a record, then an edit of the new
\* puzzle that has been saved under the new key
C8_Witness ==
    /\ Settled
    /\ hist.oldKey # << >>
    /\ hist.oldRecord # << >>
    /\ hist.edited
    /\ playerGrid # createEmptyGrid(size)
    /\ CurrentRecord # << >>
    /\ CurrentRecord[1].grid = playerGrid
    /\ getStorageKey(difficulty, todayISO) # hist.oldKey

\* C9: dismissing the victory modal closes it and does not re-arm it: from
\* the dismissal until the next restart or load the modal stays closed and
\* the shown flag stays set; a dismissal in status solved leaves the status
\* solved, in the state and in the stored record.
C9_DismissKeepsSolved ==
    hist.dismissed
        => /\ ~victoryOpen
           /\ hasShownVictoryModalRef
           /\ (Settled /\ lastEvent \in {"close", "continue"} /\ hist.solvedAtDismiss)
                => /\ gameStatus = "solved"
                   /\ CurrentRecord # << >>
                   /\ CurrentRecord[1].status = "solved"

\* the modal was dismissed on a solved grid and the auto-check has run again
C9_Witness ==
    /\ Settled
    /\ hist.dismissed
    /\ hist.solvedAtDismiss
    /\ lastEvent \in {"close", "continue"}
    /\ evalTrace.evalSolved
    /\ gameStatus = "solved"

\* C10: when a load has completed and the grid has not been edited since,
\* the status is the stored status (in_progress when there is no record),
\* the victory modal is closed and the shown flag is cleared.
C10_LoadRestoresStatus ==
    (Settled /\ hist.loaded # "pending" /\ ~hist.edited)
        => /\ gameStatus = (IF hist.loaded = "solved" THEN "solved" ELSE "in_progress")
           /\ ~victoryOpen
           /\ ~hasShownVictoryModalRef

\* the status the evaluator assigns to the rendered grid
EvaluatedStatus == IF isSolved(playerGrid, solution) THEN "solved" ELSE "in_progress"

\* C11: after every grid edit (edit, undo, redo), once the effects have run,
\* the status in memory and the status of the stored record are both solved
\* when the grid satisfies the evaluator and both in_progress otherwise.
C11_StatusFollowsGrid ==
    (Settled /\ lastEvent \in GridEvents)
        => /\ gameStatus = EvaluatedStatus
           /\ CurrentRecord # << >>
           /\ CurrentRecord[1].status = EvaluatedStatus
           /\ CurrentRecord[1].grid = playerGrid

\* a solved attempt whose modal was shown is edited back to an unsolved grid
\* by an undo: status and record are in_progress again
C11_Witness ==
    /\ Settled
    /\ lastEvent = "undo"
    /\ hist.shown = 1
    /\ ~isSolved(playerGrid, solution)
    /\ gameStatus = "in_progress"
    /\ CurrentRecord # << >>
    /\ CurrentRecord[1].status = "in_progress"

\* C12: after every load completion (mount, difficulty switch, date rollover)
\* and after every restart, hasShownVictoryModalRef and hasMovedRef are both
\* false until the grid is edited, so that the first edit starts the timer.
C12_SessionFlagsReset ==
    /\ (Settled /\ hist.loaded # "pending" /\ ~hist.edited)
            => (~hasShownVictoryModalRef /\ ~hasMovedRef)
    /\ (lastEvent = "reset") => (~hasShownVictoryModalRef /\ ~hasMovedRef)

\* the load effect is about to run: the key of the render has changed
LoadPending == phase = "effects" /\ KeyChanged

\* C13: load(difficulty, dateISO) returns the record stored at the key
\* (difficulty, dateISO) if and only if the lastSavedDate of that record
\* equals dateISO, and absent otherwise.
C13_LoadByQueryDate ==
    LoadPending
        => LET key == getStorageKey(difficulty, todayISO)
               rec == RawRecord(sessions, key)
           IN  loadGameSession(sessions, difficulty, todayISO)
                 = IF rec # << >> /\ rec[1].lastSavedDate = todayISO THEN rec ELSE << >>

\* C13 (amended): load(difficulty, dateISO) returns the record stored at the
\* key (difficulty, dateISO) if and only if the lastSavedDate of that record
\* equals the calendar day of the wall clock at the time of the load, and
\* absent otherwise; dateISO only selects the key.
C13_LoadByWallClock ==
    LoadPending
        => LET key == getStorageKey(difficulty, todayISO)
               res == loadGameSession(sessions, difficulty, todayISO)
               rec == RawRecord(sessions, key)
           IN  /\ (res # << >>) <=> (rec # << >> /\ rec[1].lastSavedDate = wallDay)
               /\ (res # << >>) => (res = rec)

\* a load whose query date is the lastSavedDate of the stored record but not
\* the day of the wall clock: absent
C13_Witness ==
    /\ LoadPending
    /\ todayISO # wallDay
    /\ CurrentRecord # << >>
    /\ CurrentRecord[1].lastSavedDate = todayISO
    /\ loadGameSession(sessions, difficulty, todayISO) = << >>

\* the history entry of a stored attempt object
HistoryEntry(store, k) ==
    [key |-> k, difficulty |-> k[1], dateISO |-> k[2], data |-> RawRecord(store, k)[1]]

\* C14: a load that returns absent leaves localStorage as it was, and every
\* attempt object stored before the load, the stale one included, is still
\* returned unchanged by the history scan under its own date
C14_StaleLoadKeepsRecord ==
    (lib.op = "load" /\ lib.result = << >>) =>
        /\ sessions = lib.before
        /\ \A k \in DOMAIN lib.before :
              RawRecord(lib.before, k) # << >> =>
                 HistoryEntry(lib.before, k) \in getAllStoredSessions(sessions)

\* a record saved on the first day is loaded under its own key one day later:
\* the load returns absent and the record is still in the history
C14_Witness ==
    /\ lib.op = "load"
    /\ lib.result = << >>
    /\ wallDay = FirstDay + 1
    /\ lib.key[2] = FirstDay
    /\ RawRecord(lib.before, lib.key) # << >>
    /\ RawRecord(lib.before, lib.key)[1].lastSavedDate = FirstDay
    /\ HistoryEntry(lib.before, lib.key) \in getAllStoredSessions(sessions)

\* the record saveGameSession stores for the fields it was given
SavedRecord ==
    [grid |-> lib.arg.grid, undoStack |-> lib.arg.undoStack,
     redoStack |-> lib.arg.redoStack, timerSeconds |-> lib.arg.timerSeconds,
     status |-> lib.arg.status, lastSavedDate |-> lib.day]

\* C15: a save that the store accepts leaves under its key exactly the given
\* fields plus lastSavedDate = the day of the call, whatever was stored there
\* before, adds or changes no other key, and a load of the key on the same
\* calendar day returns exactly that record
C15_SaveReplacesRecord ==
    (lib.op = "save" /\ ~lib.fails) =>
        /\ DOMAIN sessions = (DOMAIN lib.before) \cup {lib.key}
        /\ \A k \in (DOMAIN lib.before) \ {lib.key} : sessions[k] = lib.before[k]
        /\ RawRecord(sessions, lib.key) = << SavedRecord >>
        /\ (wallDay = lib.day) =>
              loadGameSession(sessions, lib.key[1], lib.key[2]) = << SavedRecord >>

\* a solved attempt is saved over a different record of the same key, and
\* the load of that day returns the new one
C15_Witness ==
    /\ lib.op = "save"
    /\ ~lib.fails
    /\ wallDay = lib.day
    /\ RawRecord(lib.before, lib.key) # << >>
    /\ RawRecord(lib.before, lib.key)[1].undoStack # lib.arg.undoStack
    /\ lib.arg.status = "solved"
    /\ loadGameSession(sessions, lib.key[1], lib.key[2]) = << SavedRecord >>

WriteOps == {"save", "saveStats", "markSolved", "timer", "seen", "pick"}

\* C16: a write that the store rejects returns normally, whichever record it
\* writes: no error reaches the caller, and the rotation pick still returns
\* its puzzle
C16_WritesSwallowFailure ==
    (lib.op \in WriteOps /\ lib.fails) =>
        /\ ~lib.threw
        /\ (lib.op = "pick") => (lib.result # << >>)

\* C17: whatever the threshold and the time of day, a cleanup leaves every
\* attempt entry whose key carries the day of the call
C17_CleanupKeepsToday ==
    (lib.op = "cleanup") =>
        \A k \in DOMAIN lib.before : (k[2] = lib.day) => (k \in DOMAIN sessions)

\* C18: a cleanup removes exactly the attempt entries dated more than the
\* threshold before the day of the call, keeps the others with their values,
\* and leaves the timers, solved markers and statistics unchanged
C18_CleanupRemovesOnlyOld ==
    (lib.op = "cleanup") =>
        /\ DOMAIN sessions = {k \in DOMAIN lib.before : ~(lib.day - k[2] > lib.arg)}
        /\ \A k \in DOMAIN sessions : sessions[k] = lib.before[k]
        /\ <<timers, solvedMarkers, statsStore>> = lib.others

\* a stored value that is an attempt record of the key's puzzle: an object
\* whose grid has the puzzle's dimensions and cells in 0..2
WellFormedKeys(store) ==
    {k \in DOMAIN store :
        /\ RawRecord(store, k) # << >>
        /\ isValidPlayerGrid(RawRecord(store, k)[1].grid, puzzle(k[1], k[2]).size)}

\* C20: the history scan returns exactly the entries of the well-formed
\* records, and the statistics computed from it do not throw
C20_ListSkipsMalformed ==
    (lib.op = "stats") =>
        /\ lib.listed = {HistoryEntry(sessions, k) : k \in WellFormedKeys(sessions)}
        /\ ~lib.threw

\* C19: when the page opens on a stored value that does not parse or is not
\* a grid of the puzzle's size with cells in 0..2, the session starts on the
\* empty grid of the puzzle's size, and the grid in memory is a valid grid of
\* the rendered puzzle whenever the effects have run
C19_InvalidRecordIsAbsent ==
    /\ (Settled /\ events = 0) => (playerGrid = createEmptyGrid(size))
    /\ Settled => isValidPlayerGrid(playerGrid, size)

C22_CollisionNeverRepeats ==
    LET i == lib.input
    IN  (/\ lib.featured[1] = "returned"
         /\ Len(i.pool) > 1
         /\ naiveIndex(i.pool, i.d, i.date) = naiveIndex(i.pool, i.d, previousDate(i.date)))
        => lib.featured[2] # getFeaturedPuzzleIn(i.pool, i.d, previousDate(i.date))

\* the pool a selection call worked on
CalledPool == IF lib.op = "pick" THEN PUZZLES[lib.key[1]] ELSE lib.input.pool

\* C23: a selection call on an empty pool throws, returns no entry and leaves
\* every store as it was; the featured puzzle of a pool of one entry is that
\* entry, whatever the date
C23_EmptyPoolFails ==
    /\ (lib.op \in {"featured", "unseen", "pick"} /\ Len(CalledPool) = 0) =>
          /\ lib.threw
          /\ lib.result = << >>
          /\ lib.rotation = lib.arg
          /\ sessions = lib.before
          /\ <<timers, solvedMarkers, statsStore>> = lib.others
    /\ (lib.op = "featured" /\ Len(CalledPool) = 1) =>
          (~lib.threw /\ lib.result = << CalledPool[1] >>)

\* the rotation of the empty hard pool is asked for a puzzle after a pick on
\* the easy pool stored a rotation record
C23_Witness ==
    /\ lib.op = "pick"
    /\ lib.key = << "hard" >>
    /\ Len(CalledPool) = 0
    /\ lib.threw
    /\ lib.rotation # << >>
    /\ lib.rotation = lib.arg

\* the 0-based index the scan of the unseen call is anchored at: the anchor's
\* index, the featured puzzle's index when no anchor is given, 0 when the
\* anchor is not in the pool
ScanStart ==
    LET i == lib.input
        ref == IF i.anchor # << >> THEN i.anchor[1]
               ELSE getFeaturedPuzzleIn(i.pool, i.d, i.date)[1]
    IN  IF getPuzzleIndex(i.pool, ref.id) >= 0 THEN getPuzzleIndex(i.pool, ref.id) ELSE 0

\* entry e is the first unseen entry met when the pool is walked forward,
\* wrapping, over the offsets first..first+poolSize-1 from ScanStart
FirstUnseenFrom(e, first) ==
    LET i == lib.input
        n == Len(i.pool)
        at(k) == i.pool[((ScanStart + k) % n) + 1]
    IN  \E k \in first..(first + n - 1) :
           /\ e = at(k)
           /\ e.id \notin i.seen
           /\ \A j \in first..(k - 1) : at(j).id \in i.seen

PoolExhausted == \A n \in 1..Len(lib.input.pool) : lib.input.pool[n].id \in lib.input.seen

UnseenCase == lib.op = "unseen" /\ Len(lib.input.pool) > 0

\* C24 as stated: an unseen anchor is returned unchanged; otherwise the scan
\* begins at the index of the anchor, or of the featured puzzle, and returns
\* the first entry not seen, that index included; with every entry seen the
\* anchor, or pool[0], is returned
C24_ScanFromStart ==
    (UnseenCase /\ (lib.input.anchor = << >>
                    \/ getPuzzleIndex(lib.input.pool, lib.input.anchor[1].id) >= 0)) =>
        LET i == lib.input
        IN  IF i.anchor # << >> /\ i.anchor[1].id \notin i.seen THEN lib.result = i.anchor
            ELSE IF PoolExhausted
                 THEN lib.result = (IF i.anchor # << >> THEN i.anchor ELSE << i.pool[1] >>)
                 ELSE lib.result # << >> /\ FirstUnseenFrom(lib.result[1], 0)

\* C24 amended: the scan begins at the entry after the start index and meets
\* the start index last; the start index is 0 for an anchor that is not in
\* the pool; the result is a seen id only when every pool entry is seen
C24_ScanAfterStart ==
    UnseenCase =>
        LET i == lib.input
        IN  /\ IF i.anchor # << >> /\ i.anchor[1].id \notin i.seen THEN lib.result = i.anchor
               ELSE IF PoolExhausted
                    THEN lib.result = (IF i.anchor # << >> THEN i.anchor ELSE << i.pool[1] >>)
                    ELSE lib.result # << >> /\ FirstUnseenFrom(lib.result[1], 1)
            /\ lib.result # << >>
            /\ (lib.result[1].id \in i.seen) => PoolExhausted

\* no anchor is given, the featured puzzle is not seen, and the call returns
\* the entry after the featured one
C24_Witness ==
    /\ UnseenCase
    /\ Len(lib.input.pool) > 1
    /\ lib.input.anchor = << >>
    /\ lib.input.pool[ScanStart + 1].id \notin lib.input.seen
    /\ lib.result = << lib.input.pool[((ScanStart + 1) % Len(lib.input.pool)) + 1] >>

\* the usedIds of the record a store holds under a rotation key
UsedIds(store, key) == IF key \in DOMAIN store THEN store[key][2] ELSE << >>

UnusedIndexes(pool, usedIds) ==
    {n \in 1..Len(pool) : \A i \in 1..Len(usedIds) : usedIds[i] # pool[n].id}

RotationKey == getRotationKey(lib.input.d)

\* C25: a rotation pick that the store accepts returns the first pool entry
\* whose id is not in usedIds, ids of no pool entry being ignored, and stores
\* usedIds with that id appended; when every pool entry is in usedIds it
\* returns the first entry of the pool and stores usedIds holding only its id
C25_PickFirstUnused ==
    (lib.op = "advance" /\ ~lib.fails) =>
        LET pool == lib.input.pool
            before == UsedIds(lib.arg, RotationKey)
            unused == UnusedIndexes(pool, before)
        IN  IF unused # {}
            THEN LET n == CHOOSE m \in unused : \A o \in unused : m <= o
                 IN  /\ lib.result = << pool[n] >>
                     /\ UsedIds(lib.rotation, RotationKey) = Append(before, pool[n].id)
            ELSE /\ lib.result = << pool[1] >>
                 /\ UsedIds(lib.rotation, RotationKey) = << pool[1].id >>

\* a pick over usedIds as long as the pool, one of them of no pool entry,
\* returns the entry left and appends it
C25_Witness ==
    /\ lib.op = "advance"
    /\ ~lib.fails
    /\ Len(lib.input.pool) = 2
    /\ UsedIds(lib.arg, RotationKey) = <<"retired-001", lib.input.pool[1].id>>
    /\ lib.result = << lib.input.pool[2] >>
    /\ UsedIds(lib.rotation, RotationKey) =
           <<"retired-001", lib.input.pool[1].id, lib.input.pool[2].id>>

\* C26: over a pool of N entries, whatever usedIds the store held at the
\* start, N consecutive rotation picks return N different ids: no id comes
\* back before every id of the pool has been returned once
C26_NoRepeatWithinCycle ==
    (lib.input.fn = "rotate") =>
        \A i, j \in 1..Len(lib.picked) :
            (i < j /\ j - i < Len(lib.input.pool)) => lib.picked[i] # lib.picked[j]

\* a pool [A, B, C] whose store held usedIds = [A, B] at the start
PoolABC ==
    /\ lib.input.fn = "rotate"
    /\ Len(lib.input.pool) = 3
    /\ UsedIds(lib.seen, RotationKey) = << lib.input.pool[1].id, lib.input.pool[2].id >>

\* C27 as stated: over pool [A, B, C] with usedIds = [A, B] the first pick
\* returns C and the pick after it leaves usedIds = [C]
C27_ResetKeepsLast ==
    PoolABC =>
        /\ Len(lib.picked) >= 1 => lib.picked[1] = lib.input.pool[3].id
        /\ Len(lib.picked) = 2 => UsedIds(lib.rotation, RotationKey) = << lib.input.pool[3].id >>

\* C27: over pool [A, B, C] with usedIds = [A, B] the first pick returns C
\* and stores [A, B, C]; the pick after it returns A and leaves
\* usedIds = [A]; the third returns B, so C is not returned again before
\* the fourth pick
C27_ResetToFirst ==
    PoolABC =>
        /\ Len(lib.picked) >= 1 => lib.picked[1] = lib.input.pool[3].id
        /\ Len(lib.picked) = 1 =>
              UsedIds(lib.rotation, RotationKey) = [n \in 1..3 |-> lib.input.pool[n].id]
        /\ Len(lib.picked) >= 2 => lib.picked[2] = lib.input.pool[1].id
        /\ Len(lib.picked) = 2 => UsedIds(lib.rotation, RotationKey) = << lib.input.pool[1].id >>
        /\ Len(lib.picked) >= 3 => lib.picked[3] = lib.input.pool[2].id
        /\ \A k \in 2..Len(lib.picked) : lib.picked[k] = lib.input.pool[3].id => k >= 4

\* the second pick over pool [A, B, C] started with usedIds = [A, B]
C27_Witness ==
    /\ PoolABC
    /\ lib.op = "advance"
    /\ ~lib.fails
    /\ lib.picked = << lib.input.pool[3].id, lib.input.pool[1].id >>
    /\ UsedIds(lib.rotation, RotationKey) = << lib.input.pool[1].id >>

\* the grid with one cell changed between empty and marked
MarkToggled(g, r, c) == [g EXCEPT ![r][c] = IF g[r][c] = 0 THEN 2 ELSE 0]

\* C28: the evaluator answers solved exactly when every filled cell of the
\* solution is filled in the player's grid and no empty cell of the solution
\* is filled in it; a marked cell counts as empty, so the answer is the same
\* for the grid with any one cell changed between empty and marked
C28_SolvedIffFilledMatch ==
    (lib.op = "isSolved") =>
        LET grid == lib.arg
            sol == lib.input.solution
            cells == (1..Len(sol)) \X (1..Len(sol))
            answer == lib.result[1]
        IN  /\ ~lib.threw
            /\ answer <=>
                 /\ \A x \in cells : sol[x[1]][x[2]] = 1 => grid[x[1]][x[2]] = 1
                 /\ \A x \in cells : sol[x[1]][x[2]] = 0 => grid[x[1]][x[2]] # 1
            /\ \A x \in cells :
                 grid[x[1]][x[2]] \in {0, 2} =>
                    isSolved(MarkToggled(grid, x[1], x[2]), sol) = answer

\* a grid with a marked cell is evaluated as solved
C28_Witness ==
    /\ lib.op = "isSolved"
    /\ lib.result = << TRUE >>
    /\ \E r, c \in 1..Len(lib.arg) : lib.arg[r][c] = 2
    /\ \E r, c \in 1..Len(lib.arg) : lib.arg[r][c] = 1

\* {gameStatus === 'solved' && <span className={styles.solvedBadge}>}
solvedBadgeRendered == gameStatus = "solved"

\* <VictoryModal open={victoryOpen}>, which renders nothing unless open
victoryModalRendered == victoryOpen

\* C29: the victory modal and the Solved badge are never rendered in the
\* same state: once the effects of a commit have run, the modal is not open
\* while the status is solved
C29_ModalAndBadgeExclusive ==
    Settled => ~(victoryModalRendered /\ solvedBadgeRendered)

\* the state that belongs to a storage key in a store: the stored one, the
\* initial values when nothing is stored
HookOwnState(store, key) ==
    IF key \in DOMAIN store THEN HookParse(store[key]) ELSE HookInitialState

\* C30: when the storageKey of useGameLogic changes from K1 to K2, once the
\* effects have run the grid, stacks and timer values shown are those that
\* belong to K2, and the record under K2 is what it was or holds those
\* values: nothing produced under K1 is shown or stored for K2
C30_NoLeakAcrossKeys ==
    (lib.hook # << >> /\ lib.hook.lastEvent = "key" /\ lib.hook.phase = "idle") =>
        LET h == lib.hook
            own == HookOwnState(h.before, h.storageKey)
        IN  /\ HookStateOf(h) = own
            /\ h.storageKey \in DOMAIN h.store => HookParse(h.store[h.storageKey]) = own

\* C37: every attempt record stored under the key of a difficulty and a
\* date has that date as its lastSavedDate, also when it is written after
\* midnight and before the date poll has seen the new day
C37_SavedDateMatchesKey ==
    \A k \in DOMAIN sessions :
        RawRecord(sessions, k) # << >> => RawRecord(sessions, k)[1].lastSavedDate = k[2]

\* C38: whenever the victory modal is open, the shown flag is set, the
\* status is solved and the grid on screen satisfies the evaluator
C38_ModalOnlyOverSolvedGrid ==
    (Settled /\ victoryOpen) =>
        /\ hasShownVictoryModalRef
        /\ gameStatus = "solved"
        /\ isSolved(playerGrid, solution)

\* C39: a redo that follows an undo at once restores the grid, the undo
\* stack and the redo stack of before the undo; every grid edit puts the
\* grid it replaces on the undo stack and empties the redo stack; an undo on
\* an empty undo stack and a redo on an empty redo stack set no state
C39_UndoRedoRoundTrip ==
    /\ []((lastEvent = "redo" /\ hist.beforeUndo # << >>)
            => << playerGrid, undoStack, redoStack >> = hist.beforeUndo)
    /\ [][(events' # events /\ lastEvent' = "edit")
            => (undoStack' = Append(undoStack, playerGrid) /\ redoStack' = << >>)]_vars
    /\ [][(events' # events /\ lastEvent' = "undo") => undoStack # << >>]_vars
    /\ [][(events' # events /\ lastEvent' = "redo") => redoStack # << >>]_vars

\* an edit, an undo and at once a redo, the effects of each having run
C39_Witness ==
    /\ Settled
    /\ lastEvent = "redo"
    /\ hist.beforeUndo # << >>
    /\ undoStack # << >>
    /\ playerGrid # createEmptyGrid(size)

\* C36: the seconds stored under a timer key change only by a tick or by a
\* restart: a mount, a reload, a difficulty switch or a date rollover and the
\* effects that follow it leave the stored seconds of every key as they were
C36_LoadKeepsStoredSeconds ==
    [][(lastEvent' \in {"mount", "difficulty", "poll"})
        => \A k \in DOMAIN timers :
              k \in DOMAIN timers' /\ timers'[k].seconds = timers[k].seconds]_vars

\* the members of a stored attempt that a load shows
AttemptOf(store, key) ==
    LET rec == RawRecord(store, key)[1]
    IN  << rec.grid, rec.undoStack, rec.redoStack, rec.status >>

\* C35: a load (mount, difficulty switch, date rollover) and the effects that
\* follow it never overwrite the record of the key being loaded: as long as
\* no grid is edited, its grid, stacks and status stay what they were
C35_LoadKeepsRecord ==
    [][(lastEvent' \in {"mount", "difficulty", "poll"})
        => LET key == getStorageKey(difficulty', todayISO')
           IN  RawRecord(sessions, key) # << >>
                 => /\ RawRecord(sessions', key) # << >>
                    /\ AttemptOf(sessions', key) = AttemptOf(sessions, key)]_vars

\* C33: the stored total of solved puzzles grows only in a step that finds
\* the solved marker of the puzzle on screen unset and sets it, so that no
\* puzzle is counted twice
C33_CountedOncePerPuzzle ==
    [][(loadStats(statsStore').totalSolved # loadStats(statsStore).totalSolved)
        => /\ << difficulty, puzzleId >> \notin solvedMarkers
           /\ << difficulty, puzzleId >> \in solvedMarkers']_vars

\* C31: for a pool of more than one puzzle, every press of New puzzle
\* changes the puzzle on display: the puzzle after the handler is never the
\* puzzle that was active before the press, whatever the seen list holds
C31_NewPuzzleChangesPuzzle ==
    [][(lib'.page.presses # lib.page.presses /\ Len(PUZZLES[lib.page.difficulty]) > 1)
        => pagePuzzleId(lib'.page) # pagePuzzleId(lib.page)]_vars

\* C32: from a mount that finds no seen list for (difficulty, date), the
\* featured puzzle is shown first and the New puzzle presses that follow show
\* every other puzzle of the pool once before any puzzle comes again; the
\* press after those resets the persisted seen list to the id it switches to
C32_FullCycleBeforeReset ==
    LET p == lib.page
        n == Len(PUZZLES[p.difficulty])
        c == p.cycle
    IN  c # << >> =>
          /\ c[1] = pageFeatured(p.difficulty, p.todayISO).id
          /\ \A i, j \in 1..Len(c) : (i < j /\ j <= n) => c[i] # c[j]
          /\ (Len(c) <= n /\ p.lastEvent = "new") => p.resetTo = << >>
          /\ (Len(c) = n + 1 /\ p.lastEvent = "new") =>
                /\ p.resetTo = << c[n + 1] >>
                /\ loadSeenIds(p.seenStore, makeDailySeenKey(p.difficulty, p.todayISO))
                     = << c[n + 1] >>

\* the grid of the render matches the solution of the puzzle a marker names
GridMatches(grid, marker) ==
    LET pz == pagePuzzle(marker[1], marker[2])
    IN  Len(grid) = pz.size /\ isSolved(grid, pz.solution)

\* C34: a solved marker is set, and the solved counters are incremented,
\* only for a puzzle whose solution the player's grid matched; a switch of
\* difficulty, a load or a date rollover under a displayed solved result
\* marks and counts nothing
C34_MarkedOnlyWhenMatched ==
    [][/\ \A marker \in solvedMarkers' \ solvedMarkers :
             GridMatches(lib.page.playerGrid, marker)
       /\ loadStats(statsStore').totalSolved # loadStats(statsStore).totalSolved
             => \E marker \in solvedMarkers' \ solvedMarkers :
                   GridMatches(lib.page.playerGrid, marker)]_vars

\* the persisted seen list of the (difficulty, date) on display
PersistedSeen(p) == loadSeenIds(p.seenStore, makeDailySeenKey(p.difficulty, p.todayISO))

\* C40: once the effects have settled, the persisted seen list of
\* (difficulty, date) has no duplicate id and holds the id of the active
\* puzzle, and the remaining count on display is the number of pool entries
\* whose id is not in that list
C40_SeenListConsistent ==
    LET p == lib.page
        pool == PUZZLES[p.difficulty]
        list == PersistedSeen(p)
    IN  p.phase = "idle" =>
          /\ \A i, j \in 1..Len(list) : i # j => list[i] # list[j]
          /\ pagePuzzleId(p) \in IdsOf(list)
          /\ remainingCount(p)
               = Cardinality({k \in 1..Len(pool) : pool[k].id \notin IdsOf(list)})

\* a settled page after the press that found every puzzle seen and reset the
\* list: one id is persisted and all the others remain
C40_Witness ==
    /\ lib.page.phase = "idle"
    /\ lib.page.lastEvent = "new"
    /\ lib.page.resetTo # << >>
    /\ remainingCount(lib.page) = Len(PUZZLES[lib.page.difficulty]) - 1

====
